---- MODULE Spec2Model ----
(***************************************************************************)
(* PII detection, fusion and anonymization (src-tauri/src/pii, ner).       *)
(*                                                                         *)
(* Strings are sequences of one-character strings; offsets are the 0-based *)
(* half-open byte offsets of the Rust code (the modelled alphabet is       *)
(* ASCII, one byte per character).  Confidences are in hundredths          *)
(* (0.85 is 85); floating-point rounding is not modelled.                  *)
(***************************************************************************)
EXTENDS Integers, Sequences, FiniteSets, TLC

VARIABLES
    text,             \* the text of the request (the texts, for a batch)
    patternOrder,     \* iteration order of PIIDetector.patterns (a HashMap)
    op,               \* the request: pending, or the last one served
    settings,         \* AnonymizationSettings of the last anonymize request
    replacement_map,  \* Anonymizer.replacement_map
    counters,         \* Anonymizer.counters
    anon,             \* outcome of the last anonymize request
    mode,             \* HybridDetector.detection_mode
    ner_ready,        \* NerPipeline.is_ready()
    presidio_enabled, \* PresidioManager.enabled
    ner_out,          \* what the Model Runtime answered to predict
    presidio_out,     \* what the remote service answered to analyze
    det,              \* outcome of the last HybridDetector.detect call
    lock,             \* holder of the Mutex around the shared Anonymizer, 0 if free
    procs,            \* the concurrent requests: position, request, results
    input,            \* argument of a call of one function on its own
    output,           \* what that call returned
    manager,          \* NerModelManager: which of model, model_path, config are Some
    tokenizer,        \* NerPipeline.tokenizer is Some
    entity_map        \* EntityLinker.entity_map

vars == << text, patternOrder, op, settings, replacement_map, counters, anon,
           mode, ner_ready, presidio_enabled, ner_out, presidio_out, det, lock, procs,
           input, output, manager, tokenizer, entity_map >>

\* NerModelManager::new, NerPipeline::new and EntityLinker::new
NoManager == [model |-> FALSE, model_path |-> FALSE, config |-> FALSE]
NoLinks == <<>>
ConstructedIdle == manager = NoManager /\ tokenizer = FALSE /\ entity_map = NoLinks

-----------------------------------------------------------------------------
(* Characters and strings *)

UpperChars == {"A","B","C","D","E","F","G","H","I","J","K","L","M",
               "N","O","P","Q","R","S","T","U","V","W","X","Y","Z"}
LowerChars == {"a","b","c","d","e","f","g","h","i","j","k","l","m",
               "n","o","p","q","r","s","t","u","v","w","x","y","z"}
DigitChars == {"0","1","2","3","4","5","6","7","8","9"}
SpaceChars == {" "}
LetterChars == UpperChars \cup LowerChars
WordChars == LetterChars \cup DigitChars \cup {"_"}

UpperSeq == <<"A","B","C","D","E","F","G","H","I","J","K","L","M",
              "N","O","P","Q","R","S","T","U","V","W","X","Y","Z">>
LowerSeq == <<"a","b","c","d","e","f","g","h","i","j","k","l","m",
              "n","o","p","q","r","s","t","u","v","w","x","y","z">>
DigitSeq == <<"0","1","2","3","4","5","6","7","8","9">>

None == <<"None">>

\* the character at 1-based position p, "" outside the string
At(t, p) == IF p >= 1 /\ p <= Len(t) THEN t[p] ELSE ""

\* text[start..end] of Rust, 0-based half-open
Slice(t, start, end) == SubSeq(t, start + 1, end)

\* char::to_lowercase on ASCII
LowerChar(c) == IF c \in UpperChars THEN LowerSeq[CHOOSE i \in 1..26 : UpperSeq[i] = c] ELSE c

\* str::to_lowercase
ToLower(s) == [i \in 1..Len(s) |-> LowerChar(s[i])]

\* the literal lit occurs in t at 1-based position p
LitAt(t, p, lit) == p >= 1 /\ p + Len(lit) - 1 <= Len(t) /\ SubSeq(t, p, p + Len(lit) - 1) = lit

\* str::contains
Contains(t, s) == \E p \in 1..(Len(t) - Len(s) + 1) : LitAt(t, p, s)

\* last position of the maximal run of characters of S starting at p (p-1 if none)
RECURSIVE RunEnd(_, _, _)
RunEnd(t, p, S) == IF At(t, p) \in S THEN RunEnd(t, p + 1, S) ELSE p - 1

\* regex \b between positions p-1 and p
WordBoundary(t, p) == (At(t, p - 1) \in WordChars) # (At(t, p) \in WordChars)

\* the first literal of alts (an alternation) that occurs at p, <<>> if none
RECURSIVE AltAt(_, _, _)
AltAt(t, p, alts) ==
    IF alts = <<>> THEN <<>>
    ELSE IF LitAt(t, p, Head(alts)) THEN Head(alts)
    ELSE AltAt(t, p, Tail(alts))

\* [A-Z][a-z]+ at p: last position of the match, 0 if none
CapWordEnd(t, p) ==
    IF At(t, p) \in UpperChars /\ At(t, p + 1) \in LowerChars
    THEN RunEnd(t, p + 1, LowerChars) ELSE 0

\* (?:\s+[A-Z][a-z]+){0,n} after position e: the ends reached after 0, 1, ..
\* repetitions, longest last
RECURSIVE CapWordReps(_, _, _)
CapWordReps(t, e, n) ==
    LET ws == RunEnd(t, e + 1, SpaceChars)
        w  == CapWordEnd(t, ws + 1)
    IN  IF n > 0 /\ ws > e /\ w > 0
        THEN <<e>> \o CapWordReps(t, w, n - 1)
        ELSE <<e>>

\* the longest of ends[lo..] that is followed by \b (greedy with backtracking), 0 if none
LastBounded(t, ends, lo) ==
    LET ok == {k \in lo..Len(ends) : WordBoundary(t, ends[k] + 1)}
    IN  IF ok = {} THEN 0 ELSE ends[CHOOSE k \in ok : \A j \in ok : j <= k]

-----------------------------------------------------------------------------
(* The regular expressions of PIIDetector, as matchers: XEnd(t, p) is the  *)
(* last position of the match of X that starts at position p, 0 if none.   *)
(* Of the patterns that need digits, the first Phone pattern and the       *)
(* social security number are listed. The others (the second and third     *)
(* Phone pattern, the second Identification pattern, money, date, case,    *)
(* IP, the numbered law references) and the court pattern have no match    *)
(* in the modelled texts; they are not listed.                             *)

Titles == << <<"M","r",".">>, <<"M","r","s",".">>, <<"M","s",".">>,
             <<"D","r",".">>, <<"P","r","o","f",".">> >>

OrgSuffixes == << <<"I","n","c",".">>, <<"L","L","C">>, <<"L","t","d",".">>,
                  <<"C","o","r","p",".">>,
                  <<"C","o","r","p","o","r","a","t","i","o","n">>,
                  <<"C","o","m","p","a","n","y">>, <<"C","o",".">> >>

Ordinals == << <<"F","i","r","s","t">>, <<"S","e","c","o","n","d">>,
               <<"T","h","i","r","d">>, <<"F","o","u","r","t","h">>,
               <<"F","i","f","t","h">>, <<"S","i","x","t","h">>,
               <<"S","e","v","e","n","t","h">>, <<"E","i","g","h","t","h">>,
               <<"N","i","n","t","h">>, <<"T","e","n","t","h">>,
               <<"E","l","e","v","e","n","t","h">> >>

\* \b[A-Za-z0-9._%+-]+@[A-Za-z0-9.-]+\.[A-Z|a-z]{2,}\b
EmailEnd(t, p) ==
    LET local == LetterChars \cup DigitChars \cup {".", "_", "%", "+", "-"}
        dom   == LetterChars \cup DigitChars \cup {".", "-"}
        tld   == LetterChars \cup {"|"}
        l     == RunEnd(t, p, local)
        d     == RunEnd(t, l + 2, dom)
        TldEnd(dot) == LastBounded(t, [i \in 1..(RunEnd(t, dot + 1, tld) - dot - 1) |-> dot + 1 + i], 1)
        dots  == {k \in (l + 3)..d : t[k] = "." /\ TldEnd(k) > 0}
    IN  IF WordBoundary(t, p) /\ l >= p /\ At(t, l + 1) = "@" /\ dots # {}
        THEN TldEnd(CHOOSE k \in dots : \A j \in dots : j <= k)
        ELSE 0

\* \b\+?[\d\s\-\(\)]{10,}\b
PhoneRunEnd(t, p) ==
    LET s  == IF At(t, p) = "+" THEN p + 1 ELSE p
        r  == RunEnd(t, s, DigitChars \cup SpaceChars \cup {"-", "(", ")"})
        ok == {k \in (s + 9)..r : WordBoundary(t, k + 1)}
    IN  IF WordBoundary(t, p) /\ ok # {}
        THEN CHOOSE k \in ok : \A j \in ok : j <= k
        ELSE 0

\* \b\d{3}-\d{2}-\d{4}\b
SsnEnd(t, p) ==
    IF /\ WordBoundary(t, p)
       /\ \A i \in {0, 1, 2, 4, 5, 7, 8, 9, 10} : At(t, p + i) \in DigitChars
       /\ At(t, p + 3) = "-" /\ At(t, p + 6) = "-"
       /\ WordBoundary(t, p + 11)
    THEN p + 10 ELSE 0

\* \bGDPR\b
GdprEnd(t, p) ==
    IF WordBoundary(t, p) /\ LitAt(t, p, <<"G","D","P","R">>) /\ WordBoundary(t, p + 4)
    THEN p + 3 ELSE 0

\* \b(?:Mr\.|Mrs\.|Ms\.|Dr\.|Prof\.)\s+[A-Z][a-z]+(?:\s+[A-Z][a-z]+)*\b
TitleNameEnd(t, p) ==
    LET ttl == AltAt(t, p, Titles)
        a   == p + Len(ttl) - 1
        ws  == RunEnd(t, a + 1, SpaceChars)
        w   == CapWordEnd(t, ws + 1)
    IN  IF WordBoundary(t, p) /\ ttl # <<>> /\ ws > a /\ w > 0
        THEN LastBounded(t, CapWordReps(t, w, Len(t)), 1)
        ELSE 0

\* \b[A-Z][A-Za-z\s&]+(?:Inc\.|LLC|Ltd\.|Corp\.|Corporation|Company|Co\.)\b
OrgSuffixEnd(t, p) ==
    LET r    == RunEnd(t, p + 1, LetterChars \cup SpaceChars \cup {"&"})
        SufEnd(k) == k + Len(AltAt(t, k + 1, OrgSuffixes))
        ks   == {k \in (p + 1)..r : SufEnd(k) > k /\ WordBoundary(t, SufEnd(k) + 1)}
    IN  IF WordBoundary(t, p) /\ At(t, p) \in UpperChars /\ ks # {}
        THEN SufEnd(CHOOSE k \in ks : \A j \in ks : j <= k)
        ELSE 0

\* \b[A-Z][a-z]+(?:\s+[A-Z][a-z]+){1,3}\b
NameEnd(t, p) ==
    LET w == CapWordEnd(t, p)
    IN  IF WordBoundary(t, p) /\ w > 0
        THEN LastBounded(t, CapWordReps(t, w, 3), 2)
        ELSE 0

\* \b(?:First|Second|...|Eleventh)\s+Amendment\b
AmendmentEnd(t, p) ==
    LET o  == AltAt(t, p, Ordinals)
        a  == p + Len(o) - 1
        ws == RunEnd(t, a + 1, SpaceChars)
        am == <<"A","m","e","n","d","m","e","n","t">>
    IN  IF WordBoundary(t, p) /\ o # <<>> /\ ws > a /\ LitAt(t, ws + 1, am)
           /\ WordBoundary(t, ws + 1 + Len(am))
        THEN ws + Len(am) ELSE 0

\* \b(?:Constitutional|Federal|State)\s+(?:Law|Statute|Regulation)\b
StateLawEnd(t, p) ==
    LET o  == AltAt(t, p, << <<"C","o","n","s","t","i","t","u","t","i","o","n","a","l">>,
                             <<"F","e","d","e","r","a","l">>, <<"S","t","a","t","e">> >>)
        a  == p + Len(o) - 1
        ws == RunEnd(t, a + 1, SpaceChars)
        k  == AltAt(t, ws + 1, << <<"L","a","w">>, <<"S","t","a","t","u","t","e">>,
                                  <<"R","e","g","u","l","a","t","i","o","n">> >>)
    IN  IF WordBoundary(t, p) /\ o # <<>> /\ ws > a /\ k # <<>>
           /\ WordBoundary(t, ws + 1 + Len(k))
        THEN ws + Len(k) ELSE 0

\* \b[A-Z]{2,4}\s+(?:Act|Code|Regulation)\b
ActEnd(t, p) ==
    LET u  == RunEnd(t, p, UpperChars)
        ws == RunEnd(t, u + 1, SpaceChars)
        k  == AltAt(t, ws + 1, << <<"A","c","t">>, <<"C","o","d","e">>,
                                  <<"R","e","g","u","l","a","t","i","o","n">> >>)
    IN  IF WordBoundary(t, p) /\ u - p + 1 \in 2..4 /\ ws > u /\ k # <<>>
           /\ WordBoundary(t, ws + 1 + Len(k))
        THEN ws + Len(k) ELSE 0

MatchEnd(rid, t, p) ==
    CASE rid = "email"      -> EmailEnd(t, p)
      [] rid = "phone_run"  -> PhoneRunEnd(t, p)
      [] rid = "ssn"        -> SsnEnd(t, p)
      [] rid = "gdpr"       -> GdprEnd(t, p)
      [] rid = "title_name" -> TitleNameEnd(t, p)
      [] rid = "org_suffix" -> OrgSuffixEnd(t, p)
      [] rid = "name"       -> NameEnd(t, p)
      [] rid = "amendment"  -> AmendmentEnd(t, p)
      [] rid = "state_law"  -> StateLawEnd(t, p)
      [] rid = "act"        -> ActEnd(t, p)

\* Regex::find_iter: the successive non-overlapping leftmost matches from p on,
\* as 0-based half-open spans
RECURSIVE FindIter(_, _, _)
FindIter(rid, t, p) ==
    IF p > Len(t) THEN <<>>
    ELSE LET e == MatchEnd(rid, t, p)
         IN  IF e > 0
             THEN << [start |-> p - 1, end |-> e] >> \o FindIter(rid, t, e + 1)
             ELSE FindIter(rid, t, p + 1)

\* Regex::is_match
IsMatch(rid, t) == \E p \in 1..Len(t) : MatchEnd(rid, t, p) > 0

-----------------------------------------------------------------------------
(* PIIDetector (pii/detector.rs) *)

PatternConfidence == 85
NameConfidence == 75

EntityTypes == {"Person", "Organization", "Location", "Date", "Money", "Law",
                "Case", "Email", "Phone", "Identification", "TechnicalIdentifier"}

\* Entity::new
Entity(ty, tx, s, e, c) ==
    [entity_type |-> ty, text |-> tx, start |-> s, end |-> e, confidence |-> c,
     replacement |-> None]

\* the regexes initialize_patterns registers for an entity type
Patterns(ty) ==
    CASE ty = "Email"        -> <<"email">>
      [] ty = "Phone"        -> <<"phone_run">>
      [] ty = "Identification" -> <<"ssn">>
      [] ty = "Law"          -> <<"gdpr">>
      [] ty = "Person"       -> <<"title_name">>
      [] ty = "Organization" -> <<"org_suffix">>
      [] OTHER               -> <<>>

\* the regexes of initialize_legal_whitelist
LegalWhitelist == <<"gdpr", "act", "amendment", "state_law">>

is_whitelisted(tx) == \E i \in 1..Len(LegalWhitelist) : IsMatch(LegalWhitelist[i], tx)

\* Vec::sort_by_key(|e| e.start): a stable sort
RECURSIVE SortByStart(_)
SortByStart(es) ==
    IF es = <<>> THEN <<>>
    ELSE LET sorted == SortByStart(SubSeq(es, 1, Len(es) - 1))
             x      == es[Len(es)]
             k      == Cardinality({i \in 1..Len(sorted) : sorted[i].start <= x.start})
         IN  SubSeq(sorted, 1, k) \o <<x>> \o SubSeq(sorted, k + 1, Len(sorted))

\* the loop of remove_overlaps from entity i on
RECURSIVE RemoveOverlapsFrom(_, _, _, _)
RemoveOverlapsFrom(es, i, result, last_end) ==
    IF i > Len(es) THEN result
    ELSE LET e == es[i]
         IN  IF e.start >= last_end
             THEN RemoveOverlapsFrom(es, i + 1, Append(result, e), e.end)
             ELSE IF e.end > last_end /\ result # <<>>
                     /\ Len(e.text) > Len(result[Len(result)].text)
             THEN RemoveOverlapsFrom(es, i + 1, [result EXCEPT ![Len(result)] = e], e.end)
             ELSE RemoveOverlapsFrom(es, i + 1, result, last_end)

remove_overlaps(es) == RemoveOverlapsFrom(es, 1, <<>>, 0)

\* the candidates of one regex, whitelisted non-Law matches skipped
RegexCandidates(ty, rid, t) ==
    LET ms == FindIter(rid, t, 1)
        E(m) == Entity(ty, Slice(t, m.start, m.end), m.start, m.end, PatternConfidence)
    IN  SelectSeq([i \in 1..Len(ms) |-> E(ms[i])],
                  LAMBDA e : ~(ty # "Law" /\ is_whitelisted(e.text)))

RECURSIVE TypeCandidates(_, _, _)
TypeCandidates(ty, rids, t) ==
    IF rids = <<>> THEN <<>>
    ELSE RegexCandidates(ty, Head(rids), t) \o TypeCandidates(ty, Tail(rids), t)

RECURSIVE AllCandidates(_, _)
AllCandidates(order, t) ==
    IF order = <<>> THEN <<>>
    ELSE TypeCandidates(Head(order), Patterns(Head(order)), t) \o AllCandidates(Tail(order), t)

\* PIIDetector::detect, the pattern map iterated in the given order
detect(order, t) == remove_overlaps(SortByStart(AllCandidates(order, t)))

\* str::split_whitespace
RECURSIVE SplitWhitespace(_, _)
SplitWhitespace(s, p) ==
    IF p > Len(s) THEN <<>>
    ELSE IF s[p] \in SpaceChars THEN SplitWhitespace(s, p + 1)
    ELSE LET e == RunEnd(s, p, {c \in {s[i] : i \in 1..Len(s)} : c \notin SpaceChars})
         IN  <<SubSeq(s, p, e)>> \o SplitWhitespace(s, e + 1)

\* [&str]::join(" ")
RECURSIVE JoinWords(_, _)
JoinWords(ws, sep) ==
    IF ws = <<>> THEN <<>>
    ELSE IF Len(ws) = 1 THEN ws[1]
    ELSE ws[1] \o sep \o JoinWords(Tail(ws), sep)

non_name_starters ==
    { <<"u","n","d","e","r">>, <<"t","h","e">>, <<"t","h","i","s">>, <<"t","h","a","t">>,
      <<"t","h","e","s","e">>, <<"t","h","o","s","e">>, <<"a","r","t","i","c","l","e">>,
      <<"s","e","c","t","i","o","n">>, <<"p","a","r","a","g","r","a","p","h">>,
      <<"c","h","a","p","t","e","r">>, <<"a","c","c","o","r","d","i","n","g">>,
      <<"p","u","r","s","u","a","n","t">>, <<"s","u","b","j","e","c","t">>, <<"p","e","r">>,
      <<"c","o","n","t","a","c","t">>, <<"c","a","l","l">>, <<"e","m","a","i","l">>,
      <<"v","i","s","i","t">>, <<"s","e","e">>, <<"m","e","e","t">>, <<"d","e","a","r">>,
      <<"h","e","l","l","o">>, <<"h","i">>, <<"f","r","o","m">>, <<"t","o">>, <<"r","e">> }

non_name_words ==
    { <<"a","r","t","i","c","l","e">>, <<"s","e","c","t","i","o","n">>,
      <<"p","a","r","a","g","r","a","p","h">>, <<"c","h","a","p","t","e","r">>,
      <<"r","e","g","u","l","a","t","i","o","n">>, <<"a","c","t">>, <<"c","o","d","e">>,
      <<"l","a","w">>, <<"s","t","a","t","u","t","e">>, <<"r","u","l","e">> }

exact_exclusions ==
    { <<"u","n","i","t","e","d"," ","s","t","a","t","e","s">>,
      <<"s","u","p","r","e","m","e"," ","c","o","u","r","t">>,
      <<"d","i","s","t","r","i","c","t"," ","c","o","u","r","t">>,
      <<"c","o","u","r","t"," ","o","f">>, <<"s","t","a","t","e"," ","o","f">>,
      <<"c","i","t","y"," ","o","f">>, <<"c","o","u","n","t","y"," ","o","f">> }

\* the loop that strips leading non-name words: the resulting name_start_idx
RECURSIVE NameStartIdx(_, _)
NameStartIdx(words, idx) ==
    IF idx < Len(words) /\ ToLower(words[idx + 1]) \in non_name_starters
    THEN NameStartIdx(words, idx + 1)
    ELSE idx

\* the body of the loop of detect_person_names for one match: zero or one entity
NameEntity(t, m) ==
    LET matched_text   == Slice(t, m.start, m.end)
        text_lower     == ToLower(matched_text)
        words          == SplitWhitespace(matched_text, 1)
        has_legal_term == \E i \in 1..Len(words) : ToLower(words[i]) \in non_name_words
        name_start_idx == NameStartIdx(words, 0)
        name_words     == SubSeq(words, name_start_idx + 1, Len(words))
        name           == JoinWords(name_words, <<" ">>)
        start          == IF name_start_idx > 0
                          THEN m.start + Len(JoinWords(SubSeq(words, 1, name_start_idx), <<" ">>)) + 1
                          ELSE m.start
    IN  IF text_lower \in exact_exclusions \/ has_legal_term THEN <<>>
        ELSE IF name_start_idx >= Len(words) \/ Len(words) - name_start_idx < 2 THEN <<>>
        ELSE << Entity("Person", name, start, start + Len(name), NameConfidence) >>

RECURSIVE NameEntities(_, _)
NameEntities(t, ms) ==
    IF ms = <<>> THEN <<>> ELSE NameEntity(t, Head(ms)) \o NameEntities(t, Tail(ms))

\* PIIDetector::detect_person_names
detect_person_names(t) == NameEntities(t, FindIter("name", t, 1))

-----------------------------------------------------------------------------
(* Anonymizer (pii/anonymizer.rs) and AnonymizationSettings (pii/types.rs) *)

DefaultThreshold == 70

DefaultEntityTypes ==
    {"Person", "Organization", "Location", "Date", "Email", "Phone", "Identification"}

\* EntityType::should_anonymize
\* should_anonymize as it would be without the arm that exempts Law
should_anonymize_every_type(ty) == TRUE

should_anonymize(ty) == ty # "Law"

\* a HashMap with no entry
EmptyMap == [k \in {} |-> <<>>]

\* HashMap::insert
MapInsert(m, k, v) == (k :> v) @@ m

\* the while loop of to_letter
RECURSIVE ToLetterLoop(_, _)
ToLetterLoop(num, result) ==
    IF num > 0
    THEN ToLetterLoop((num - 1) \div 26, <<UpperSeq[((num - 1) % 26) + 1]>> \o result)
    ELSE result

\* to_letter as it would be with plain base-26 digits (26 gives BA)
RECURSIVE to_letter_plain_base26(_)
to_letter_plain_base26(n) ==
    IF n < 26 THEN <<UpperSeq[n + 1]>>
    ELSE to_letter_plain_base26(n \div 26) \o <<UpperSeq[(n % 26) + 1]>>

to_letter(n) == IF n = 0 THEN <<"A">> ELSE ToLetterLoop(n, <<>>)

\* Display of a usize: its decimal digits
RECURSIVE Decimal(_)
Decimal(n) ==
    IF n < 10 THEN <<DigitSeq[n + 1]>>
    ELSE Decimal(n \div 10) \o <<DigitSeq[(n % 10) + 1]>>

\* the match of get_or_create_replacement: the placeholder of an entity given
\* the counter value just taken
FormatReplacement(entity, counter) ==
    LET Lettered(name) == <<"[">> \o name \o <<"-">> \o to_letter(counter) \o <<"]">>
        Numbered(name) == <<"[">> \o name \o <<"-">> \o Decimal(counter) \o <<"]">>
        ty == entity.entity_type
    IN  CASE ty = "Person"       -> Lettered(<<"P","E","R","S","O","N">>)
          [] ty = "Organization" -> Lettered(<<"O","R","G","A","N","I","Z","A","T","I","O","N">>)
          [] ty = "Location"     -> Lettered(<<"L","O","C","A","T","I","O","N">>)
          [] ty = "Date"         -> Numbered(<<"D","A","T","E">>)
          [] ty = "Money"        -> Numbered(<<"A","M","O","U","N","T">>)
          [] ty = "Email"        -> Numbered(<<"E","M","A","I","L">>)
          [] ty = "Phone"        -> Numbered(<<"P","H","O","N","E">>)
          [] ty = "Case"         -> Numbered(<<"C","A","S","E">>)
          [] ty = "Identification" -> Numbered(<<"I","D">>)
          [] ty = "TechnicalIdentifier" -> Numbered(<<"T","E","C","H","-","I","D">>)
          [] ty = "Law"          -> entity.text

\* get_or_create_replacement as it would be without the look-up in the map
get_or_create_replacement_without_lookup(st, entity) ==
    LET ty      == entity.entity_type
        counter == (IF ty \in DOMAIN st.counters THEN st.counters[ty] ELSE 0) + 1
        repl    == FormatReplacement(entity, counter)
    IN  [map |-> MapInsert(st.map, entity.text, repl),
         counters |-> MapInsert(st.counters, ty, counter),
         replacement |-> repl]

\* get_or_create_replacement on the anonymizer state st = [map, counters]:
\* the state it leaves and the replacement it returns
get_or_create_replacement(st, entity) ==
    IF entity.text \in DOMAIN st.map
    THEN [map |-> st.map, counters |-> st.counters, replacement |-> st.map[entity.text]]
    ELSE LET ty      == entity.entity_type
             counter == (IF ty \in DOMAIN st.counters THEN st.counters[ty] ELSE 0) + 1
             repl    == FormatReplacement(entity, counter)
         IN  [map |-> MapInsert(st.map, entity.text, repl),
              counters |-> MapInsert(st.counters, ty, counter),
              replacement |-> repl]

\* generate_replacements from entity i on: the state it leaves and the entities
\* with their replacement
RECURSIVE GenerateFrom(_, _, _, _)
GenerateFrom(st, entities, i, done) ==
    IF i > Len(entities) THEN [map |-> st.map, counters |-> st.counters, entities |-> done]
    ELSE LET e == entities[i]
             r == IF should_anonymize(e.entity_type)
                  THEN get_or_create_replacement(st, e)
                  ELSE [map |-> st.map, counters |-> st.counters, replacement |-> e.text]
         IN  GenerateFrom([map |-> r.map, counters |-> r.counters], entities, i + 1,
                          Append(done, [e EXCEPT !.replacement = r.replacement]))

generate_replacements(st, entities) == GenerateFrom(st, entities, 1, <<>>)

\* the loop of apply_anonymization from entity i on; slicing text[a..b] with
\* a > b or b > len panics
RECURSIVE ApplyFrom(_, _, _, _, _)
ApplyFrom(t, entities, i, result, last_pos) ==
    IF i > Len(entities)
    THEN IF last_pos > Len(t) THEN [status |-> "panic", text |-> None]
         ELSE [status |-> "ok", text |-> result \o Slice(t, last_pos, Len(t))]
    ELSE LET e == entities[i]
         IN  IF last_pos > e.start \/ e.start > Len(t)
             THEN [status |-> "panic", text |-> None]
             ELSE ApplyFrom(t, entities, i + 1,
                            result \o Slice(t, last_pos, e.start)
                                   \o (IF e.replacement # None THEN e.replacement ELSE e.text),
                            e.end)

apply_anonymization(t, entities) ==
    IF entities = <<>> THEN [status |-> "ok", text |-> t]
    ELSE ApplyFrom(t, entities, 1, <<>>, 0)

\* anonymize as it would be without the reset at its start
anonymize_without_reset(st, t, s, sorted) ==
    LET st0       == st
        retained  == SelectSeq(sorted, LAMBDA e : e.confidence >= s.confidence_threshold
                                                  /\ e.entity_type \in s.entity_types)
        kept      == IF s.preserve_legal_references
                     THEN SelectSeq(retained, LAMBDA e : e.entity_type # "Law")
                     ELSE retained
        g         == generate_replacements(st0, kept)
        a         == apply_anonymization(t, g.entities)
    IN  [map |-> g.map, counters |-> g.counters, status |-> a.status,
         result |-> [original_text |-> t, anonymized_text |-> a.text, entities |-> g.entities,
                     replacements |-> IF a.status = "ok"
                                      THEN [i \in 1..Len(g.entities) |->
                                               <<g.entities[i].text, g.entities[i].replacement>>]
                                      ELSE <<>>]]

\* Anonymizer::anonymize on the state st: the state it leaves and its outcome.
\* When the rewrite panics no result is returned; the record then holds the
\* entity list that was being rewritten.
\* `sorted` is the list anonymize has built once it has re-sorted the pattern
\* entities extended with the person names.
AnonymizeSorted(st, t, s, sorted) ==
    LET st0       == IF ~s.consistent_replacement
                     THEN [map |-> EmptyMap, counters |-> EmptyMap] ELSE st
        retained  == SelectSeq(sorted, LAMBDA e : e.confidence >= s.confidence_threshold
                                                  /\ e.entity_type \in s.entity_types)
        kept      == IF s.preserve_legal_references
                     THEN SelectSeq(retained, LAMBDA e : e.entity_type # "Law")
                     ELSE retained
        g         == generate_replacements(st0, kept)
        a         == apply_anonymization(t, g.entities)
    IN  [map |-> g.map, counters |-> g.counters, status |-> a.status,
         result |-> [original_text |-> t, anonymized_text |-> a.text, entities |-> g.entities,
                     replacements |-> IF a.status = "ok"
                                      THEN [i \in 1..Len(g.entities) |->
                                               <<g.entities[i].text, g.entities[i].replacement>>]
                                      ELSE <<>>]]

\* the entities anonymize detects: the pattern pass, the person names, re-sorted
DetectSorted(order, t) == SortByStart(detect(order, t) \o detect_person_names(t))

anonymize(st, order, t, s) == AnonymizeSorted(st, t, s, DetectSorted(order, t))

\* Anonymizer::anonymize_batch from document i on; a panic ends the batch.
\* sorted[i] is the list anonymize builds for texts[i].
RECURSIVE BatchFrom(_, _, _, _, _, _)
BatchFrom(st, texts, s, sorted, i, results) ==
    IF i > Len(texts)
    THEN [map |-> st.map, counters |-> st.counters, status |-> "ok", results |-> results]
    ELSE LET r == AnonymizeSorted(st, texts[i], s, sorted[i])
         IN  IF r.status = "panic"
             THEN [map |-> r.map, counters |-> r.counters, status |-> "panic",
                   results |-> Append(results, r.result)]
             ELSE BatchFrom([map |-> r.map, counters |-> r.counters], texts, s, sorted, i + 1,
                            Append(results, r.result))

anonymize_batch(st, order, texts, s) ==
    BatchFrom(st, texts, s, [i \in 1..Len(texts) |-> DetectSorted(order, texts[i])], 1, <<>>)

\* clear_replacements as it would be if it emptied the map alone
clear_map_only(st) == [map |-> EmptyMap, counters |-> st.counters]

\* Anonymizer::clear_replacements
clear_replacements(st) == [map |-> EmptyMap, counters |-> EmptyMap]

-----------------------------------------------------------------------------
(* NER pipeline (ner/tokenizer.rs, ner/types.rs, ner/inference.rs) *)

\* The tokenizer proper is the HuggingFace library; here it yields one token
\* per blank-separated word, with the word's offsets in the text.
RECURSIVE TokensFrom(_, _)
TokensFrom(t, p) ==
    IF p > Len(t) THEN <<>>
    ELSE IF t[p] \in SpaceChars THEN TokensFrom(t, p + 1)
    ELSE LET e == RunEnd(t, p, {c \in {t[i] : i \in 1..Len(t)} : c \notin SpaceChars})
         IN  << [token |-> SubSeq(t, p, e), start |-> p - 1, end |-> e] >> \o TokensFrom(t, e + 1)

encode(t) == TokensFrom(t, 1)

\* str::trim_start_matches("##")
RECURSIVE TrimHashes(_)
TrimHashes(s) == IF LitAt(s, 1, <<"#","#">>) THEN TrimHashes(SubSeq(s, 3, Len(s))) ELSE s

\* align_tokens_with_text: special tokens dropped, subwords flagged and cleaned
align_tokens_with_text(tokens) ==
    LET kept == SelectSeq(tokens, LAMBDA k : ~(At(k.token, 1) = "[" /\ At(k.token, Len(k.token)) = "]"))
    IN  [i \in 1..Len(kept) |->
            LET is_subword == LitAt(kept[i].token, 1, <<"#","#">>)
            IN  [token |-> IF is_subword THEN TrimHashes(kept[i].token) ELSE kept[i].token,
                 start |-> kept[i].start, end |-> kept[i].end, is_subword |-> is_subword]]

\* what merge_subword_predictions pushes for the word under construction;
\* c.label is current_label.unwrap_or(0)
PushWord(c) ==
    IF c.word # <<>>
    THEN Append(c.merged, [token |-> c.word, label_id |-> c.label,
                           confidence |-> c.confidence \div c.count,
                           start |-> c.start, end |-> c.end])
    ELSE c.merged

\* the loop of merge_subword_predictions over the zip of both lists, from i on
RECURSIVE MergeSubwordFrom(_, _, _, _)
MergeSubwordFrom(alignments, predictions, i, c) ==
    IF i > Len(alignments) \/ i > Len(predictions) THEN PushWord(c)
    ELSE LET a == alignments[i]
             p == predictions[i]
         IN  IF a.is_subword
             THEN MergeSubwordFrom(alignments, predictions, i + 1,
                     [c EXCEPT !.word = c.word \o a.token,
                               !.confidence = c.confidence + p.confidence,
                               !.end = a.end, !.count = c.count + 1])
             ELSE MergeSubwordFrom(alignments, predictions, i + 1,
                     [merged |-> PushWord(c), word |-> a.token, label |-> p.label_id,
                      confidence |-> p.confidence, start |-> a.start, end |-> a.end,
                      count |-> 1])

merge_subword_predictions(alignments, predictions) ==
    MergeSubwordFrom(alignments, predictions, 1,
        [merged |-> <<>>, word |-> <<>>, label |-> 0, confidence |-> 0,
         start |-> 0, end |-> 0, count |-> 0])

\* Option::None of a label or of a type name
NoLabel == "None"

\* NerLabel::from_id
from_id(id) ==
    CASE id = 0 -> "O"
      [] id = 1 -> "B-PER"  [] id = 2 -> "I-PER"
      [] id = 3 -> "B-ORG"  [] id = 4 -> "I-ORG"
      [] id = 5 -> "B-LOC"  [] id = 6 -> "I-LOC"
      [] id = 7 -> "B-MISC" [] id = 8 -> "I-MISC"
      [] OTHER  -> NoLabel

is_begin(label) == label \in {"B-PER", "B-ORG", "B-LOC", "B-MISC"}

\* is_inside as it would be if only I-PER continued an entity
is_inside_person_only(label) == label = "I-PER"

is_inside(label) == label \in {"I-PER", "I-ORG", "I-LOC", "I-MISC"}

\* NerLabel::entity_type
entity_type(label) ==
    CASE label \in {"B-PER", "I-PER"}   -> "PER"
      [] label \in {"B-ORG", "I-ORG"}   -> "ORG"
      [] label \in {"B-LOC", "I-LOC"}   -> "LOC"
      [] label \in {"B-MISC", "I-MISC"} -> "MISC"
      [] OTHER                          -> NoLabel

\* sum of the confidences of token predictions
RECURSIVE SumConfidence(_)
SumConfidence(tokens) ==
    IF tokens = <<>> THEN 0 ELSE Head(tokens).confidence + SumConfidence(Tail(tokens))

\* the loop of extract_entities as it would be if an I- label that continues
\* nothing closed the open entity
RECURSIVE extract_closing_on_mismatch(_, _, _, _)
extract_closing_on_mismatch(predictions, i, entities, cur) ==
    LET flushed == entities \o cur
    IN  IF i > Len(predictions) THEN flushed
        ELSE LET pred == predictions[i]
             IN  IF pred.label = "O" THEN extract_closing_on_mismatch(predictions, i + 1, flushed, <<>>)
                 ELSE IF is_begin(pred.label)
                 THEN extract_closing_on_mismatch(predictions, i + 1, flushed,
                         << [text |-> pred.token, entity_type |-> entity_type(pred.label),
                             confidence |-> pred.confidence, start |-> pred.start,
                             end |-> pred.end, tokens |-> <<pred>>] >>)
                 ELSE IF is_inside(pred.label) /\ cur # <<>>
                         /\ cur[1].entity_type = entity_type(pred.label)
                 THEN LET toks == Append(cur[1].tokens, pred)
                      IN  extract_closing_on_mismatch(predictions, i + 1, entities,
                             << [cur[1] EXCEPT !.text = cur[1].text \o <<" ">> \o pred.token,
                                               !.end = pred.end, !.tokens = toks,
                                               !.confidence = SumConfidence(toks) \div Len(toks)] >>)
                 ELSE extract_closing_on_mismatch(predictions, i + 1, flushed, <<>>)

\* the loop of extract_entities from prediction i on; cur is current_entity,
\* <<>> for None and <<entity>> for Some(entity)
RECURSIVE ExtractFrom(_, _, _, _)
ExtractFrom(predictions, i, entities, cur) ==
    LET flushed == entities \o cur
    IN  IF i > Len(predictions) THEN flushed
        ELSE LET pred == predictions[i]
             IN  IF pred.label = "O" THEN ExtractFrom(predictions, i + 1, flushed, <<>>)
                 ELSE IF is_begin(pred.label)
                 THEN ExtractFrom(predictions, i + 1, flushed,
                         << [text |-> pred.token, entity_type |-> entity_type(pred.label),
                             confidence |-> pred.confidence, start |-> pred.start,
                             end |-> pred.end, tokens |-> <<pred>>] >>)
                 ELSE IF is_inside(pred.label) /\ cur # <<>>
                         /\ cur[1].entity_type = entity_type(pred.label)
                 THEN LET toks == Append(cur[1].tokens, pred)
                      IN  ExtractFrom(predictions, i + 1, entities,
                             << [cur[1] EXCEPT !.text = cur[1].text \o <<" ">> \o pred.token,
                                               !.end = pred.end, !.tokens = toks,
                                               !.confidence = SumConfidence(toks) \div Len(toks)] >>)
                 ELSE ExtractFrom(predictions, i + 1, entities, cur)

extract_entities(predictions) == ExtractFrom(predictions, 1, <<>>, <<>>)

\* the part of predict between the model's answer and extract_entities:
\* tokens are those of the encoding, predictions the (label id, confidence)
\* the model gave for each position of its input
token_predictions(tokens, predictions) ==
    LET alignments == align_tokens_with_text(tokens)
        valid      == SubSeq(predictions, 1,
                             IF Len(alignments) < Len(predictions)
                             THEN Len(alignments) ELSE Len(predictions))
        merged     == merge_subword_predictions(alignments, valid)
        known      == SelectSeq(merged, LAMBDA m : from_id(m.label_id) # NoLabel)
    IN  [i \in 1..Len(known) |->
            [token |-> known[i].token, label |-> from_id(known[i].label_id),
             confidence |-> known[i].confidence,
             start |-> known[i].start, end |-> known[i].end]]

\* NerPipeline::predict; out is what the Model Runtime answered: an error, or
\* one (label id, confidence) per input token
predict(t, ready, out) ==
    IF ~ready \/ out.status # "ok" THEN [status |-> "err", entities |-> <<>>]
    ELSE [status |-> "ok",
          entities |-> extract_entities(token_predictions(encode(t), out.predictions))]

-----------------------------------------------------------------------------
(* EntityTypeMapper (pii/presidio/mapping.rs) *)

\* EntityTypeMapper::to_internal: the table built by new()
to_internal(presidio_type) ==
    CASE presidio_type = "PERSON" -> "Person"
      [] presidio_type \in {"LOCATION", "GPE", "LOC"} -> "Location"
      [] presidio_type \in {"ORGANIZATION", "ORG"} -> "Organization"
      [] presidio_type \in {"EMAIL_ADDRESS", "EMAIL"} -> "Email"
      [] presidio_type \in {"PHONE_NUMBER", "PHONE"} -> "Phone"
      [] presidio_type \in {"DATE_TIME", "DATE", "TIME", "DATE_OF_BIRTH"} -> "Date"
      [] presidio_type = "MONEY" -> "Money"
      [] presidio_type \in {"CREDIT_CARD", "IBAN_CODE", "US_BANK_NUMBER", "CRYPTO", "US_SSN",
                            "US_ITIN", "US_PASSPORT", "US_DRIVER_LICENSE", "UK_NHS", "UK_NINO",
                            "AU_ABN", "AU_ACN", "AU_TFN", "AU_MEDICARE", "IN_AADHAAR", "IN_PAN",
                            "IN_VOTER", "SG_NRIC_FIN", "IT_FISCAL_CODE", "IT_DRIVER_LICENSE",
                            "IT_VAT_CODE", "IT_PASSPORT", "IT_IDENTITY_CARD", "ES_NIF", "ES_NIE",
                            "PL_PESEL", "PL_NIP", "PL_REGON", "MEDICAL_LICENSE", "NRP"}
            -> "Identification"
      [] presidio_type \in {"IP_ADDRESS", "URL", "MAC_ADDRESS"} -> "TechnicalIdentifier"
      [] OTHER -> NoLabel

\* convert_entity as it would be if an end past the text were answered with an
\* entity of empty text instead of None
convert_entity_keeping_offsets(presidio_entity, t) ==
    LET ty == to_internal(presidio_entity.entity_type)
    IN  IF ty = NoLabel THEN [status |-> "ok", entities |-> <<>>]
        ELSE IF presidio_entity.start > presidio_entity.end /\ presidio_entity.end <= Len(t)
        THEN [status |-> "panic", entities |-> <<>>]
        ELSE [status |-> "ok",
              entities |-> << Entity(ty,
                                     IF presidio_entity.end <= Len(t)
                                     THEN Slice(t, presidio_entity.start, presidio_entity.end)
                                     ELSE <<>>,
                                     presidio_entity.start, presidio_entity.end,
                                     presidio_entity.score) >>]

\* EntityTypeMapper::convert_entity: <<>> for None, <<entity>> for Some(entity);
\* text[start..end] panics when start > end
convert_entity(presidio_entity, t) ==
    LET ty == to_internal(presidio_entity.entity_type)
    IN  IF ty = NoLabel THEN [status |-> "ok", entities |-> <<>>]
        ELSE IF presidio_entity.end <= Len(t)
        THEN IF presidio_entity.start > presidio_entity.end
             THEN [status |-> "panic", entities |-> <<>>]
             ELSE [status |-> "ok",
                   entities |-> << Entity(ty, Slice(t, presidio_entity.start, presidio_entity.end),
                                          presidio_entity.start, presidio_entity.end,
                                          presidio_entity.score) >>]
        ELSE [status |-> "ok", entities |-> <<>>]

\* EntityTypeMapper::convert_entities
RECURSIVE convert_entities(_, _)
convert_entities(presidio_entities, t) ==
    IF presidio_entities = <<>> THEN [status |-> "ok", entities |-> <<>>]
    ELSE LET first == convert_entity(Head(presidio_entities), t)
             rest  == convert_entities(Tail(presidio_entities), t)
         IN  IF first.status = "panic" \/ rest.status = "panic"
             THEN [status |-> "panic", entities |-> <<>>]
             ELSE [status |-> "ok", entities |-> first.entities \o rest.entities]

-----------------------------------------------------------------------------
(* HybridDetector (ner/hybrid_detector.rs) *)

PresidioBoost == 5

detect_with_patterns(order, t) == SortByStart(detect(order, t) \o detect_person_names(t))

convert_ner_to_entities(ner_entities) ==
    LET Type(n) == CASE n.entity_type = "PER" -> "Person"
                     [] n.entity_type = "ORG" -> "Organization"
                     [] n.entity_type = "LOC" -> "Location"
                     [] OTHER -> NoLabel
        kept == SelectSeq(ner_entities, LAMBDA n : Type(n) # NoLabel)
    IN  [i \in 1..Len(kept) |->
            Entity(Type(kept[i]), kept[i].text, kept[i].start, kept[i].end, kept[i].confidence)]

\* the closure has_overlap and find_overlapping_index share
Overlaps(e, entity) == ~(e.end <= entity.start \/ e.start >= entity.end)

has_overlap(entities, entity) == \E i \in 1..Len(entities) : Overlaps(entities[i], entity)

\* Iterator::position, 1-based; 0 for None
find_overlapping_index(entities, entity) ==
    LET hits == {i \in 1..Len(entities) : Overlaps(entities[i], entity)}
    IN  IF hits = {} THEN 0 ELSE CHOOSE i \in hits : \A j \in hits : i <= j

\* the boost merge_all_layers grants a remote entity
presidio_boost(entity) ==
    IF entity.entity_type \in {"Identification", "Email", "Phone"} THEN PresidioBoost ELSE 0

\* one turn of the loop of merge_entities (remote = FALSE) or merge_all_layers
\* (remote = TRUE): base is the list the merge started from
MergeStep(merged, base, candidate, remote) ==
    IF ~has_overlap(base, candidate) THEN Append(merged, candidate)
    ELSE LET idx   == find_overlapping_index(base, candidate)
             boost == IF remote THEN presidio_boost(candidate) ELSE 0
         IN  IF idx # 0 /\ candidate.confidence + boost > base[idx].confidence
             THEN LET merge_idx == find_overlapping_index(merged, base[idx])
                  IN  IF merge_idx # 0 THEN [merged EXCEPT ![merge_idx] = candidate]
                      ELSE merged
             ELSE merged

\* the merged list after the first k candidates
RECURSIVE MergeLoop(_, _, _, _)
MergeLoop(base, candidates, k, remote) ==
    IF k = 0 THEN base
    ELSE MergeStep(MergeLoop(base, candidates, k - 1, remote), base, candidates[k], remote)

\* Vec::dedup_by on equal type, start and end: the first of each run is kept
RECURSIVE Dedup(_)
Dedup(es) ==
    IF Len(es) < 2 THEN es
    ELSE LET init == Dedup(SubSeq(es, 1, Len(es) - 1))
             a    == es[Len(es)]
             b    == init[Len(init)]
         IN  IF a.entity_type = b.entity_type /\ a.start = b.start /\ a.end = b.end
             THEN init ELSE Append(init, a)

merge_entities(pattern_entities, ner_entities) ==
    Dedup(SortByStart(MergeLoop(pattern_entities, ner_entities, Len(ner_entities), FALSE)))

merge_all_layers(hybrid_entities, presidio_entities) ==
    Dedup(SortByStart(MergeLoop(hybrid_entities, presidio_entities, Len(presidio_entities), TRUE)))

\* the NER entities detect_hybrid merges: none when the pipeline is not ready
\* or predict fails
HybridNerEntities(t, ready, out) ==
    IF ready
    THEN LET r == predict(t, ready, out)
         IN  IF r.status = "ok" THEN convert_ner_to_entities(r.entities) ELSE <<>>
    ELSE <<>>

\* In the detect_* operators `patterns` is detect_with_patterns(text).
detect_hybrid(patterns, t, ready, out) ==
    [status |-> "ok", entities |-> merge_entities(patterns, HybridNerEntities(t, ready, out))]

\* detect_with_ner as it would be without the fallback to the patterns
detect_with_ner_without_fallback(patterns, t, ready, out) ==
    LET r == predict(t, ready, out)
    IN  IF ~ready \/ r.status # "ok" THEN [status |-> "err", entities |-> <<>>]
        ELSE [status |-> "ok", entities |-> convert_ner_to_entities(r.entities)]

detect_with_ner(patterns, t, ready, out) ==
    IF ~ready THEN [status |-> "ok", entities |-> patterns]
    ELSE LET r == predict(t, ready, out)
         IN  IF r.status # "ok" THEN [status |-> "err", entities |-> <<>>]
             ELSE [status |-> "ok", entities |-> convert_ner_to_entities(r.entities)]

\* remote is what PresidioManager::analyze answered
detect_with_presidio(patterns, t, ready, out, enabled, remote) ==
    IF ~enabled THEN detect_hybrid(patterns, t, ready, out)
    ELSE IF remote.status # "ok" THEN [status |-> "err", entities |-> <<>>]
    ELSE convert_entities(remote.entities, t)

\* the remote entities detect_full merges
FullPresidioEntities(t, enabled, remote) ==
    IF enabled /\ remote.status = "ok" THEN convert_entities(remote.entities, t)
    ELSE [status |-> "ok", entities |-> <<>>]

detect_full(patterns, t, ready, out, enabled, remote) ==
    LET hybrid   == detect_hybrid(patterns, t, ready, out)
        presidio == FullPresidioEntities(t, enabled, remote)
    IN  IF hybrid.status # "ok" THEN hybrid
        ELSE IF presidio.status = "panic" THEN presidio
        ELSE [status |-> "ok", entities |-> merge_all_layers(hybrid.entities, presidio.entities)]

-----------------------------------------------------------------------------
(* Inputs *)

MaxWords == 3

W_Mr == <<"M","r",".">>
W_Jo == <<"J","o">>
W_Hi == <<"H","i">>
W_Company == <<"C","o","m","p","a","n","y">>
W_GDPR == <<"G","D","P","R">>
W_First == <<"F","i","r","s","t">>
W_Amendment == <<"A","m","e","n","d","m","e","n","t">>
W_Email == <<"a","@","b",".","i","o">>
W_Act == <<"A","c","t">>

\* the texts of at most max of the given words, every gap being one of gaps
TextsOver(words, gaps, max) ==
    UNION { { JoinWords(ws, g) : ws \in [1..n -> words], g \in gaps } : n \in 0..max }

\* longer texts: a name that occurs a second time before a legal term
LongTexts ==
    { JoinWords(ws, <<" ">>) :
        ws \in { <<W_Jo, W_Jo, W_GDPR, W_Jo, W_Jo, W_Act>>,
                 <<W_Jo, W_Jo, W_Act, W_Email, W_Jo, W_Jo>> } }

AnonTexts ==
    TextsOver({W_Mr, W_Jo, W_Hi, W_Company, W_GDPR, W_First, W_Amendment, W_Email},
              {<<" ">>, <<" ", " ">>}, MaxWords) \cup LongTexts

DetectTexts == TextsOver({W_Mr, W_Jo}, {<<" ">>}, MaxWords)

\* initialize_patterns inserts the types in this order; a HashMap iterates
\* them in an order of its own
InsertionOrder ==
    <<"Email", "Phone", "Identification", "Money", "Date", "Case", "Law",
      "TechnicalIdentifier", "Person", "Organization">>

PatternOrders ==
    { InsertionOrder, [i \in 1..Len(InsertionOrder) |-> InsertionOrder[Len(InsertionOrder) + 1 - i]] }

\* AnonymizationSettings::default
DefaultSettings ==
    [entity_types |-> DefaultEntityTypes, confidence_threshold |-> DefaultThreshold,
     preserve_legal_references |-> TRUE, consistent_replacement |-> TRUE]

SettingsChoices ==
    [entity_types : {DefaultEntityTypes, DefaultEntityTypes \cup {"Law"}},
     confidence_threshold : {DefaultThreshold, DefaultThreshold + 10},
     preserve_legal_references : BOOLEAN, consistent_replacement : BOOLEAN]

Modes == {"PatternOnly", "NerOnly", "Hybrid", "Full", "PresidioOnly"}

\* a layer that was not consulted gave no answer
NotCalled == [status |-> "none"]

NerLabelIds == {0, 1, 2, 7}

NerConfidences == {80, 90}

\* the answers of the Model Runtime for a text: an error, or a label for each
\* token, all with one confidence
NerAnswers(t) ==
    LET n == Len(encode(t))
    IN  {[status |-> "err"]} \cup
        { [status |-> "ok", predictions |-> [i \in 1..n |-> [label_id |-> ls[i], confidence |-> c]]] :
            ls \in [1..n -> NerLabelIds], c \in NerConfidences }

\* the spans a remote entity may carry: from the start of a word to the end
\* of a word (start > end when the second word comes first), and one
\* reaching past the end of the text
RemoteSpans(t) ==
    LET toks == encode(t)
    IN  { <<toks[i].start, toks[j].end>> : i \in 1..Len(toks), j \in 1..Len(toks) }
        \cup { <<0, Len(t) + 1>> }

\* the answers of the remote service: an error, no entity, or one entity
PresidioAnswers(t) ==
    { [status |-> "err"], [status |-> "ok", entities |-> <<>>] } \cup
    { [status |-> "ok",
       entities |-> << [entity_type |-> ty, start |-> sp[1], end |-> sp[2], score |-> 82] >>] :
        ty \in {"PERSON", "EMAIL_ADDRESS"}, sp \in RemoteSpans(t) }

-----------------------------------------------------------------------------
(* One request on a fresh Anonymizer, or one HybridDetector.detect *)

NoAnon == [status |-> "none", results |-> <<>>]

NoDet == [status |-> "none", entities |-> <<>>]

Init ==
    /\ op \in {"anonymize_text", "detect"}
    /\ text \in (IF op = "detect" THEN DetectTexts ELSE AnonTexts)
    /\ patternOrder \in PatternOrders
    /\ settings = DefaultSettings
    /\ replacement_map = EmptyMap
    /\ counters = EmptyMap
    /\ anon = NoAnon
    /\ mode \in (IF op = "detect" THEN Modes ELSE {"Hybrid"})
    /\ ner_ready \in (IF op = "detect" THEN BOOLEAN ELSE {FALSE})
    /\ presidio_enabled \in (IF op = "detect" THEN BOOLEAN ELSE {FALSE})
    /\ ner_out = NotCalled
    /\ presidio_out = NotCalled
    /\ det = NoDet
    /\ lock = 0
    /\ procs = <<>>
    /\ input = <<>>
    /\ output = NotCalled
    /\ ConstructedIdle

\* commands::anonymize_text on the Anonymizer
AnonymizeText ==
    /\ op = "anonymize_text"
    /\ anon.status = "none"
    /\ \E sorted \in {DetectSorted(patternOrder, text)} :
       \E s \in SettingsChoices :
       \E r \in {AnonymizeSorted([map |-> replacement_map, counters |-> counters],
                                 text, s, sorted)} :
          /\ settings' = s
          /\ replacement_map' = r.map
          /\ counters' = r.counters
          /\ anon' = [status |-> r.status, results |-> <<r.result>>]
    /\ UNCHANGED << text, patternOrder, op, mode, ner_ready, presidio_enabled,
                    ner_out, presidio_out, det, lock, procs,
                    input, output, manager, tokenizer, entity_map >>

DetectUnchanged ==
    UNCHANGED << text, patternOrder, op, settings, replacement_map, counters, anon,
                 mode, ner_ready, presidio_enabled, lock, procs,
                 input, output, manager, tokenizer, entity_map >>

\* the answers a detect call may get from the NER layer, consulted or not
NerOutcomes(consulted) == IF consulted THEN NerAnswers(text) ELSE {NotCalled}

PresidioOutcomes(consulted) == IF consulted THEN PresidioAnswers(text) ELSE {NotCalled}

DetectPatternOnly ==
    /\ op = "detect" /\ det.status = "none" /\ mode = "PatternOnly"
    /\ det' = [status |-> "ok", entities |-> detect_with_patterns(patternOrder, text)]
    /\ UNCHANGED << ner_out, presidio_out >>
    /\ DetectUnchanged

DetectNerOnly ==
    /\ op = "detect" /\ det.status = "none" /\ mode = "NerOnly"
    /\ \E patterns \in {detect_with_patterns(patternOrder, text)} :
       \E out \in NerOutcomes(ner_ready) :
          /\ ner_out' = out
          /\ det' = detect_with_ner(patterns, text, ner_ready, out)
    /\ UNCHANGED presidio_out
    /\ DetectUnchanged

DetectHybrid ==
    /\ op = "detect" /\ det.status = "none" /\ mode = "Hybrid"
    /\ \E patterns \in {detect_with_patterns(patternOrder, text)} :
       \E out \in NerOutcomes(ner_ready) :
          /\ ner_out' = out
          /\ det' = detect_hybrid(patterns, text, ner_ready, out)
    /\ UNCHANGED presidio_out
    /\ DetectUnchanged

DetectFull ==
    /\ op = "detect" /\ det.status = "none" /\ mode = "Full"
    /\ \E patterns \in {detect_with_patterns(patternOrder, text)} :
       \E out \in NerOutcomes(ner_ready) :
       \E remote \in PresidioOutcomes(presidio_enabled) :
          /\ ner_out' = out
          /\ presidio_out' = remote
          /\ det' = detect_full(patterns, text, ner_ready, out, presidio_enabled, remote)
    /\ DetectUnchanged

DetectPresidioOnly ==
    /\ op = "detect" /\ det.status = "none" /\ mode = "PresidioOnly"
    /\ \E patterns \in {detect_with_patterns(patternOrder, text)} :
       \E out \in NerOutcomes(~presidio_enabled /\ ner_ready) :
       \E remote \in PresidioOutcomes(presidio_enabled) :
          /\ ner_out' = out
          /\ presidio_out' = remote
          /\ det' = detect_with_presidio(patterns, text, ner_ready, out,
                                         presidio_enabled, remote)
    /\ DetectUnchanged

\* HybridDetector::detect: the match on the detection mode
Detect == DetectPatternOnly \/ DetectNerOnly \/ DetectHybrid \/ DetectFull \/ DetectPresidioOnly

Next == AnonymizeText \/ Detect

Spec == Init /\ [][Next]_vars

-----------------------------------------------------------------------------
(* Properties of one request *)

SpansOverlap(a, b) == a.start < b.end /\ b.start < a.end

NoOverlaps(es) == \A i, j \in 1..Len(es) : i # j => ~SpansOverlap(es[i], es[j])

SortedByStart(es) == \A i \in 1..(Len(es) - 1) : es[i].start <= es[i + 1].start

InBounds(e, t) == 0 <= e.start /\ e.start <= e.end /\ e.end <= Len(t)

\* C1: whatever the text, the detection mode and the availability of the NER
\* and remote layers, no two entities of the list HybridDetector.detect
\* returns have overlapping half-open spans.
C1_DetectNoOverlap == det.status = "ok" => NoOverlaps(det.entities)

\* PatternOnly has returned a title match together with the person name
\* found inside it.
C1_PatternOnlyOverlap ==
    /\ det.status = "ok" /\ mode = "PatternOnly"
    /\ \E i, j \in 1..Len(det.entities) :
          /\ i # j /\ SpansOverlap(det.entities[i], det.entities[j])
          /\ det.entities[i].confidence = PatternConfidence
          /\ det.entities[j].confidence = NameConfidence

\* C2: the entity list Anonymizer.anonymize builds from the pattern pass and
\* the person names (the list of its result; when the rewrite panics, the
\* list it was rewriting) is sorted by start and pairwise non-overlapping.
C2_AnonymizeSortedNoOverlap ==
    \A k \in 1..Len(anon.results) :
        SortedByStart(anon.results[k].entities) /\ NoOverlaps(anon.results[k].entities)

\* anonymize has panicked on a list in which two entities overlap
C2_OverlapPanics ==
    /\ op = "anonymize_text" /\ anon.status = "panic"
    /\ ~NoOverlaps(anon.results[1].entities)

\* the substrings of t the legal-reference whitelist matches
WhitelistMatches(t) ==
    { Slice(t, m[1].start, m[1].end) :
        m \in UNION { { <<FindIter(LegalWhitelist[i], t, 1)[k]>> :
                          k \in 1..Len(FindIter(LegalWhitelist[i], t, 1)) } :
                      i \in 1..Len(LegalWhitelist) } }

\* C3: with preserve_legal_references = true, every substring of the input
\* that the legal-reference whitelist matches still occurs verbatim in the
\* anonymized text.
C3_LegalReferencePreserved ==
    (op = "anonymize_text" /\ anon.status = "ok" /\ settings.preserve_legal_references)
        => \A m \in WhitelistMatches(text) : Contains(anon.results[1].anonymized_text, m)

\* a whitelisted reference was tagged as a person and replaced
C3_ReferenceReplaced ==
    /\ op = "anonymize_text" /\ anon.status = "ok" /\ settings.preserve_legal_references
    /\ \E k \in 1..Len(anon.results[1].entities) :
          /\ anon.results[1].entities[k].entity_type = "Person"
          /\ is_whitelisted(anon.results[1].entities[k].text)
          /\ ~Contains(anon.results[1].anonymized_text, anon.results[1].entities[k].text)

\* C5: every entity of a returned list lies inside its text, 0 <= start <=
\* end <= len(text): the lists of HybridDetector.detect (PatternOnly returns
\* the entities of PatternDetector.detect and detect_person_names, PresidioOnly
\* those of convert_entities) and of Anonymizer.anonymize.
C5_EntitiesInBounds ==
    /\ \A i \in 1..Len(det.entities) : InBounds(det.entities[i], text)
    /\ \A k \in 1..Len(anon.results) : \A i \in 1..Len(anon.results[k].entities) :
          InBounds(anon.results[k].entities[i], anon.results[k].original_text)

\* Full has merged a remote entity that ends where the text ends
C5_RemoteEntityAtEnd ==
    /\ det.status = "ok" /\ mode = "Full" /\ presidio_enabled
    /\ presidio_out.status = "ok" /\ ner_out.status = "ok"
    /\ \E i \in 1..Len(det.entities) : \E j \in 1..Len(presidio_out.entities) :
          /\ det.entities[i].confidence = presidio_out.entities[j].score
          /\ det.entities[i].end = Len(text)
          /\ det.entities[i].start > 0

\* the list a merge started from and its candidates, for the merges of the
\* last detect call: patterns + NER, then (Full) hybrid + remote
HybridBase == detect_with_patterns(patternOrder, text)

HybridCandidates == HybridNerEntities(text, ner_ready, ner_out)

FullBase ==
    detect_hybrid(detect_with_patterns(patternOrder, text), text, ner_ready, ner_out).entities

FullCandidates == FullPresidioEntities(text, presidio_enabled, presidio_out).entities

\* the rule of C6 at the k-th candidate of a merge: cur is the merged list
\* the candidate meets, nxt the list it leaves
MergeRule(base, candidates, k, remote) ==
    LET cur   == MergeLoop(base, candidates, k - 1, remote)
        nxt   == MergeLoop(base, candidates, k, remote)
        cand  == candidates[k]
        hits  == {i \in 1..Len(cur) : SpansOverlap(cur[i], cand)}
        boost == IF remote /\ cand.entity_type \in {"Identification", "Email", "Phone"}
                 THEN 5 ELSE 0
    IN  Cardinality(hits) = 1 =>
            LET i == CHOOSE i \in hits : TRUE
            IN  IF cand.confidence + boost > cur[i].confidence
                THEN nxt = [cur EXCEPT ![i] = cand]
                ELSE nxt = cur

\* C6: in a merge, a candidate that overlaps exactly one entity of the current
\* list replaces it, in place and with its own unboosted confidence, if and
\* only if its confidence (plus 0.05 for a remote Identification, Email or
\* Phone entity) is strictly greater; otherwise the list is left as it is.
\* Either way exactly one of the two is in the list afterwards.
C6_MergeReplacesTheOverlapped ==
    (det.status = "ok" /\ mode \in {"Hybrid", "Full"}) =>
        /\ \A k \in 1..Len(HybridCandidates) : MergeRule(HybridBase, HybridCandidates, k, FALSE)
        /\ mode = "Full" =>
              \A k \in 1..Len(FullCandidates) : MergeRule(FullBase, FullCandidates, k, TRUE)

\* Hybrid has returned a NER entity together with the pattern entity it
\* overlaps and outranks
C6_WinnerBesideLoser ==
    /\ det.status = "ok" /\ mode = "Hybrid" /\ ner_out.status = "ok"
    /\ \E i, j \in 1..Len(det.entities) :
          /\ SpansOverlap(det.entities[i], det.entities[j])
          /\ det.entities[i].confidence = PatternConfidence
          /\ det.entities[j].confidence > PatternConfidence

\* C7: an optional layer that is unavailable never makes detect fail: NerOnly
\* and Hybrid with the pipeline not ready return the PatternOnly result, and
\* PresidioOnly and Full with the remote layer disabled return what Hybrid
\* returns for the same text and the same answer of the NER layer.
C7_UnavailableLayerDegrades ==
    det.status # "none" =>
        /\ (mode \in {"NerOnly", "Hybrid"} /\ ~ner_ready) =>
              det = [status |-> "ok", entities |-> detect_with_patterns(patternOrder, text)]
        /\ (mode \in {"PresidioOnly", "Full"} /\ ~presidio_enabled) =>
              det = detect_hybrid(detect_with_patterns(patternOrder, text), text,
                                  ner_ready, ner_out)

\* Full, remote layer disabled, has returned a list holding a NER entity
C7_FullWithoutRemote ==
    /\ det.status = "ok" /\ mode = "Full" /\ ~presidio_enabled
    /\ ner_ready /\ ner_out.status = "ok"
    /\ \E i \in 1..Len(det.entities) : det.entities[i].confidence \in NerConfidences

\* C8: when the remote layer is enabled and analyze fails, Full and
\* PresidioOnly return no error; Full returns the Hybrid result.
C8_RemoteFailureFallsBack ==
    (det.status # "none" /\ mode \in {"Full", "PresidioOnly"}
        /\ presidio_enabled /\ presidio_out.status = "err") =>
        /\ det.status = "ok"
        /\ mode = "Full" =>
              det = detect_hybrid(detect_with_patterns(patternOrder, text), text,
                                  ner_ready, ner_out)

\* PresidioOnly has returned the error of analyze
C8_PresidioOnlyError ==
    /\ mode = "PresidioOnly" /\ presidio_enabled /\ presidio_out.status = "err"
    /\ det.status = "err"

\* C9: when the pipeline is ready and predict fails, detect returns the error
\* in NerOnly, Hybrid and Full.
C9_NerFailureSurfaced ==
    (det.status # "none" /\ mode \in {"NerOnly", "Hybrid", "Full"}
        /\ ner_ready /\ ner_out.status = "err") => det.status = "err"

\* Hybrid has answered a failed predict with the pattern entities
C9_HybridSwallowsError ==
    /\ mode = "Hybrid" /\ ner_ready /\ ner_out.status = "err"
    /\ det = [status |-> "ok", entities |-> detect_with_patterns(patternOrder, text)]
    /\ det.entities # <<>>

-----------------------------------------------------------------------------
(* A sequence of requests served one after the other by one Anonymizer *)

MaxBatch == 2

\* the documents of the requests: a title and a name, a bare name, an e-mail
\* address before a name, and one whose entities overlap
SeqTexts ==
    { JoinWords(ws, <<" ">>) :
        ws \in { <<W_Mr, W_Jo>>, <<W_Jo, W_Jo>>, <<W_Email, W_Mr, W_Jo>>, <<W_Jo, W_Mr, W_Jo>> } }

SeqBatches == UNION { [1..n -> SeqTexts] : n \in 0..MaxBatch }

SeqSettings ==
    { s \in SettingsChoices : s.entity_types = DefaultEntityTypes /\ s.preserve_legal_references }

\* the list anonymize builds for each text, under each iteration order
SeqDetected == [o \in PatternOrders |-> [t \in SeqTexts |-> DetectSorted(o, t)]]

InitSeq ==
    /\ op = "new"
    /\ text = <<>>
    /\ patternOrder \in PatternOrders
    /\ settings = DefaultSettings
    /\ replacement_map = EmptyMap
    /\ counters = EmptyMap
    /\ anon = NoAnon
    /\ mode = "Hybrid" /\ ner_ready = FALSE /\ presidio_enabled = FALSE
    /\ ner_out = NotCalled /\ presidio_out = NotCalled /\ det = NoDet
    /\ lock = 0
    /\ procs = <<>>
    /\ input = <<>>
    /\ output = NotCalled
    /\ ConstructedIdle

SeqUnchanged ==
    UNCHANGED << text, patternOrder, mode, ner_ready, presidio_enabled, ner_out, presidio_out,
                 det, lock, procs,
                 input, output, manager, tokenizer, entity_map >>

\* commands::anonymize_text
SeqAnonymizeText ==
    /\ \E t \in SeqTexts : \E s \in SeqSettings :
       \E r \in {AnonymizeSorted([map |-> replacement_map, counters |-> counters], t, s,
                                 SeqDetected[patternOrder][t])} :
          /\ op' = "anonymize_text" /\ settings' = s
          /\ replacement_map' = r.map /\ counters' = r.counters
          /\ anon' = [status |-> r.status, results |-> <<r.result>>]
    /\ SeqUnchanged

\* commands::anonymize_batch
SeqAnonymizeBatch ==
    /\ \E texts \in SeqBatches : \E s \in SeqSettings :
       \E r \in {BatchFrom([map |-> replacement_map, counters |-> counters], texts, s,
                           [i \in 1..Len(texts) |-> SeqDetected[patternOrder][texts[i]]],
                           1, <<>>)} :
          /\ op' = "anonymize_batch" /\ settings' = s
          /\ replacement_map' = r.map /\ counters' = r.counters
          /\ anon' = [status |-> r.status, results |-> r.results]
    /\ SeqUnchanged

\* commands::clear_pii_replacements
SeqClearReplacements ==
    /\ \E st \in {clear_replacements([map |-> replacement_map, counters |-> counters])} :
          /\ replacement_map' = st.map /\ counters' = st.counters
    /\ op' = "clear_pii_replacements"
    /\ anon' = NoAnon
    /\ UNCHANGED settings
    /\ SeqUnchanged

NextSeq == SeqAnonymizeText \/ SeqAnonymizeBatch \/ SeqClearReplacements

SpecSeq == InitSeq /\ [][NextSeq]_vars

\* the replacements the entities of the results carry (a Law entity keeps its
\* text and has no entry in the map)
ResultsAgreeWith(results, map) ==
    \A k \in 1..Len(results) : \A i \in 1..Len(results[k].entities) :
        LET e == results[k].entities[i]
        IN  should_anonymize(e.entity_type) =>
                e.text \in DOMAIN map /\ e.replacement = map[e.text]

\* C4: a request served with consistent_replacement = true changes or removes
\* no entry of replacement_map and lowers no counter, and every entity of its
\* results carries the placeholder the map holds for its text; so, until a
\* clear, the same entity text receives the same placeholder in every result.
C4_ConsistentReplacement ==
    [][ (op' \in {"anonymize_text", "anonymize_batch"} /\ settings'.consistent_replacement) =>
          /\ \A k \in DOMAIN replacement_map :
                k \in DOMAIN replacement_map' /\ replacement_map'[k] = replacement_map[k]
          /\ \A ty \in DOMAIN counters :
                ty \in DOMAIN counters' /\ counters'[ty] >= counters[ty]
          /\ ResultsAgreeWith(anon'.results, replacement_map') ]_vars

\* a batch has given one text the same placeholder in two documents, the
\* second placeholder of its type, kept from an earlier request
C4_SamePlaceholderAcrossBatch ==
    /\ op = "anonymize_batch" /\ settings.consistent_replacement /\ anon.status = "ok"
    /\ Len(anon.results) = 2
    /\ anon.results[1].original_text # anon.results[2].original_text
    /\ \E i \in 1..Len(anon.results[1].entities) : \E j \in 1..Len(anon.results[2].entities) :
          /\ anon.results[1].entities[i].text = anon.results[2].entities[j].text
          /\ anon.results[1].entities[i].replacement = anon.results[2].entities[j].replacement
          /\ anon.results[1].entities[i].replacement = <<"[","P","E","R","S","O","N","-","B","]">>
    /\ \A k \in 1..2 : \A i \in 1..Len(anon.results[k].entities) :
          anon.results[k].entities[i].replacement # <<"[","P","E","R","S","O","N","-","A","]">>

-----------------------------------------------------------------------------
(* Concurrent requests on the shared Anonymizer (commands/pii.rs) *)

MaxProcs == 2

ConcTexts ==
    { JoinWords(ws, <<" ">>) : ws \in { <<W_Mr, W_Jo>>, <<W_Jo, W_Jo>> } }

ConcSettings == { s \in SeqSettings : s.confidence_threshold = DefaultThreshold }

\* the requests a client may send
Requests ==
    { [kind |-> "anonymize_text", texts |-> <<t>>, settings |-> s] :
        t \in ConcTexts, s \in ConcSettings } \cup
    { [kind |-> "anonymize_batch", texts |-> ts, settings |-> s] :
        ts \in [1..MaxBatch -> ConcTexts], s \in ConcSettings } \cup
    { [kind |-> "clear_pii_replacements", texts |-> <<>>, settings |-> DefaultSettings] }

\* a command that has not yet asked for the lock
NewProc(request) ==
    [request |-> request, pc |-> "waiting", status |-> "none", results |-> <<>>]

ConcDetected == [o \in PatternOrders |-> [t \in ConcTexts |-> DetectSorted(o, t)]]

InitConc ==
    /\ op = "new"
    /\ text = <<>>
    /\ patternOrder \in PatternOrders
    /\ settings = DefaultSettings
    /\ replacement_map = EmptyMap
    /\ counters = EmptyMap
    /\ anon = NoAnon
    /\ mode = "Hybrid" /\ ner_ready = FALSE /\ presidio_enabled = FALSE
    /\ ner_out = NotCalled /\ presidio_out = NotCalled /\ det = NoDet
    /\ input = <<>>
    /\ output = NotCalled
    /\ ConstructedIdle
    /\ lock = 0
    /\ procs \in { [p \in 1..MaxProcs |-> NewProc(rs[p])] : rs \in [1..MaxProcs -> Requests] }

ConcUnchanged ==
    UNCHANGED << text, patternOrder, op, settings, anon, mode, ner_ready, presidio_enabled,
                 ner_out, presidio_out, det,
                 input, output, manager, tokenizer, entity_map >>

\* the lock as it would be if it were granted while held
lock_granted_while_held(holder) == TRUE

\* tokio::sync::Mutex::lock completes when nobody holds the lock
CanAcquire(holder) == holder = 0

\* anonymizer.lock().await
Acquire(p) ==
    /\ procs[p].pc = "waiting"
    /\ CanAcquire(lock)
    /\ lock' = p
    /\ procs' = [procs EXCEPT ![p].pc = "locked"]
    /\ UNCHANGED << replacement_map, counters >>
    /\ ConcUnchanged

\* one Anonymizer::anonymize of anonymize_text or of the batch's map
AnonymizeDocument(p) ==
    /\ procs[p].pc = "locked"
    /\ procs[p].request.kind \in {"anonymize_text", "anonymize_batch"}
    /\ procs[p].status = "none"
    /\ Len(procs[p].results) < Len(procs[p].request.texts)
    /\ \E t \in {procs[p].request.texts[Len(procs[p].results) + 1]} :
       \E r \in {AnonymizeSorted([map |-> replacement_map, counters |-> counters], t,
                                 procs[p].request.settings, ConcDetected[patternOrder][t])} :
          /\ replacement_map' = r.map /\ counters' = r.counters
          /\ procs' = [procs EXCEPT ![p].results = Append(@, r.result),
                                    ![p].status = IF r.status = "panic" THEN "panic" ELSE @]
    /\ UNCHANGED lock
    /\ ConcUnchanged

\* Anonymizer::clear_replacements of clear_pii_replacements
ClearReplacements(p) ==
    /\ procs[p].pc = "locked"
    /\ procs[p].request.kind = "clear_pii_replacements"
    /\ procs[p].status = "none"
    /\ \E st \in {clear_replacements([map |-> replacement_map, counters |-> counters])} :
          /\ replacement_map' = st.map /\ counters' = st.counters
    /\ procs' = [procs EXCEPT ![p].status = "ok"]
    /\ UNCHANGED lock
    /\ ConcUnchanged

\* the command returns, or unwinds from a panic: the guard is dropped
Return(p) ==
    /\ procs[p].pc = "locked"
    /\ \/ procs[p].status # "none"
       \/ /\ procs[p].request.kind # "clear_pii_replacements"
          /\ Len(procs[p].results) = Len(procs[p].request.texts)
    /\ procs' = [procs EXCEPT ![p].pc = "done",
                              ![p].status = IF @ = "none" THEN "ok" ELSE @]
    /\ lock' = IF lock = p THEN 0 ELSE lock
    /\ UNCHANGED << replacement_map, counters >>
    /\ ConcUnchanged

NextConc ==
    \/ \E p \in 1..Len(procs) : Acquire(p)
    \/ \E p \in 1..Len(procs) : AnonymizeDocument(p)
    \/ \E p \in 1..Len(procs) : ClearReplacements(p)
    \/ \E p \in 1..Len(procs) : Return(p)

SpecConc == InitConc /\ [][NextConc]_vars

\* a whole request served on the state st: the state it leaves and its
\* outcome; detected[t] is the list anonymize builds for the text t
ServeRequest(st, detected, request) ==
    CASE request.kind = "anonymize_text" ->
            LET r == AnonymizeSorted(st, request.texts[1], request.settings,
                                     detected[request.texts[1]])
            IN  [map |-> r.map, counters |-> r.counters, status |-> r.status,
                 results |-> <<r.result>>]
      [] request.kind = "anonymize_batch" ->
            BatchFrom(st, request.texts, request.settings,
                      [i \in 1..Len(request.texts) |-> detected[request.texts[i]]], 1, <<>>)
      [] OTHER ->
            [map |-> clear_replacements(st).map, counters |-> clear_replacements(st).counters,
             status |-> "ok", results |-> <<>>]

\* the requests of procs served whole, one after the other, in the order perm
\* from its i-th: the final state and the outcome of each
RECURSIVE SerialFrom(_, _, _, _)
SerialFrom(st, perm, i, outcomes) ==
    IF i > Len(perm)
    THEN [map |-> st.map, counters |-> st.counters, outcomes |-> outcomes]
    ELSE LET r == ServeRequest(st, ConcDetected[patternOrder], procs[perm[i]].request)
         IN  SerialFrom([map |-> r.map, counters |-> r.counters], perm, i + 1,
                        [outcomes EXCEPT ![perm[i]] = [status |-> r.status, results |-> r.results]])

SerialOrders ==
    { perm \in [1..Len(procs) -> 1..Len(procs)] :
        \A i, j \in 1..Len(procs) : i # j => perm[i] # perm[j] }

\* C10: at most one command is inside the Anonymizer at a time, and when all
\* the requests have returned, the results of each and the final
\* replacement_map and counters are those of the requests served whole in
\* some serial order.
C10_Serializable ==
    /\ \A p, q \in 1..Len(procs) :
          (procs[p].pc = "locked" /\ procs[q].pc = "locked") => p = q
    /\ (\A p \in 1..Len(procs) : procs[p].pc = "done") =>
          \E perm \in SerialOrders :
             LET serial == SerialFrom([map |-> EmptyMap, counters |-> EmptyMap], perm, 1,
                                      [p \in 1..Len(procs) |-> [status |-> "none", results |-> <<>>]])
             IN  /\ serial.map = replacement_map
                 /\ serial.counters = counters
                 /\ \A p \in 1..Len(procs) :
                       serial.outcomes[p] = [status |-> procs[p].status, results |-> procs[p].results]

\* two batches have returned, and the second's placeholders carry on from
\* the first's
C10_TwoBatchesServed ==
    /\ Len(procs) >= 2
    /\ \A p \in 1..Len(procs) :
          /\ procs[p].pc = "done" /\ procs[p].status = "ok"
          /\ procs[p].request.kind = "anonymize_batch"
          /\ procs[p].request.settings.consistent_replacement
          /\ Len(procs[p].results) = MaxBatch
    /\ procs[1].request.texts # procs[2].request.texts
    /\ Cardinality(DOMAIN replacement_map) >= 2
    /\ lock = 0

-----------------------------------------------------------------------------
(* Calls of one function on its own: op names the function, input is its   *)
(* argument, output what it returned                                       *)

MaxIndex == 54

AnonymizedTypes == { ty \in EntityTypes : should_anonymize(ty) }

\* the i-th distinct entity text met since the maps were last emptied
TextNo(i) == <<"n", "o", " ">> \o Decimal(i)

\* the calls of get_or_create_replacement start on empty maps, with entities
\* of one type; n is the number of the text last given, known whether it had
\* been met before
GetOrCreateInputs == [ty : AnonymizedTypes, n : {0}, known : {FALSE}]

FnUnchanged ==
    UNCHANGED << text, patternOrder, op, settings, anon, mode, ner_ready, presidio_enabled,
                 ner_out, presidio_out, det, lock, procs, manager, tokenizer, entity_map >>

\* Anonymizer::get_or_create_replacement, called with the first text, the
\* last text met or the next new text
CallGetOrCreate ==
    /\ op = "get_or_create_replacement"
    /\ \E met \in {Cardinality(DOMAIN replacement_map)} :
       \E n \in {1, met, met + 1} \cap 1..MaxIndex :
       \E r \in {get_or_create_replacement(
                     [map |-> replacement_map, counters |-> counters],
                     Entity(input.ty, TextNo(n), 0, Len(TextNo(n)), PatternConfidence))} :
          /\ input' = [input EXCEPT !.n = n, !.known = (n <= met)]
          /\ replacement_map' = r.map
          /\ counters' = r.counters
          /\ output' = [status |-> "ok", value |-> r.replacement]
    /\ FnUnchanged

\* the part of a placeholder between its last "-" and the closing "]"
IndexPart(placeholder) ==
    LET dash == CHOOSE i \in 1..Len(placeholder) :
                    /\ placeholder[i] = "-"
                    /\ \A j \in (i + 1)..Len(placeholder) : placeholder[j] # "-"
    IN  SubSeq(placeholder, dash + 1, Len(placeholder) - 1)

\* the number a column name of a spreadsheet stands for (A = 1, Z = 26, AA = 27)
RECURSIVE ColumnNumber(_)
ColumnNumber(letters) ==
    IF letters = <<>> THEN 0
    ELSE 26 * ColumnNumber(SubSeq(letters, 1, Len(letters) - 1))
         + (CHOOSE k \in 1..26 : UpperSeq[k] = letters[Len(letters)])

\* the number a decimal numeral stands for
RECURSIVE DecimalNumber(_)
DecimalNumber(digits) ==
    IF digits = <<>> THEN 0
    ELSE 10 * DecimalNumber(SubSeq(digits, 1, Len(digits) - 1))
         + (CHOOSE k \in 0..9 : DigitSeq[k + 1] = digits[Len(digits)])

\* the index a placeholder of type ty carries, 0 if it is not well formed
IndexNumber(ty, placeholder) ==
    LET part == IndexPart(placeholder)
        lettered == ty \in {"Person", "Organization", "Location"}
    IN  IF part = <<>> THEN 0
        ELSE IF lettered
        THEN IF \A i \in 1..Len(part) : part[i] \in UpperChars THEN ColumnNumber(part) ELSE 0
        ELSE IF \A i \in 1..Len(part) : part[i] \in DigitChars /\ part[1] # "0"
             THEN DecimalNumber(part) ELSE 0

\* C11: the N-th distinct text of a type met since the maps were emptied
\* holds the index N, as a spreadsheet column name for Person, Organization
\* and Location and in decimal for every other anonymized type: after any
\* calls the texts met hold the indices 1, 2, ... in the order they came, the
\* counter of the type is their number, and the call returned the placeholder
\* of its text.
C11_NthTextGetsIndexN ==
    (op = "get_or_create_replacement" /\ output.status = "ok") =>
        LET met == Cardinality(DOMAIN replacement_map)
        IN  /\ DOMAIN replacement_map = { TextNo(i) : i \in 1..met }
            /\ \A i \in 1..met : IndexNumber(input.ty, replacement_map[TextNo(i)]) = i
            /\ counters = [ty \in {input.ty} |-> met]
            /\ input.n \in 1..met
            /\ output.value = replacement_map[TextNo(input.n)]

\* the 27th distinct Person text has been given [PERSON-AA]
C11_TwentySeventhIsAA ==
    /\ op = "get_or_create_replacement" /\ output.status = "ok"
    /\ input.ty = "Person" /\ input.n = 27 /\ ~input.known
    /\ output.value = <<"[","P","E","R","S","O","N","-","A","A","]">>
    /\ replacement_map[TextNo(26)] = <<"[","P","E","R","S","O","N","-","Z","]">>
    /\ counters["Person"] = 27

-----------------------------------------------------------------------------
(* The rewritten text *)

RECURSIVE Flatten(_)
Flatten(parts) == IF parts = <<>> THEN <<>> ELSE Head(parts) \o Flatten(Tail(parts))

\* t with the span of every entity of es replaced by its replacement and
\* the rest copied: the gaps and the replacements, alternating
Rewritten(t, es) ==
    LET n      == Len(es)
        Gap(i) == Slice(t, IF i = 1 THEN 0 ELSE es[i - 1].end,
                           IF i = n + 1 THEN Len(t) ELSE es[i].start)
    IN  Flatten([i \in 1..(2 * n + 1) |->
                    IF i % 2 = 1 THEN Gap((i + 1) \div 2) ELSE es[i \div 2].replacement])

\* C12: the anonymized text anonymize returns is the source text with the
\* span of every result entity replaced by its replacement and everything
\* else copied in order, and the text of an entity that was given a
\* placeholder does not occur in it.
C12_TextRewritten ==
    (op = "anonymize_text" /\ anon.status = "ok") =>
        LET r == anon.results[1]
        IN  /\ r.anonymized_text = Rewritten(r.original_text, r.entities)
            /\ \A i \in 1..Len(r.entities) :
                  r.entities[i].replacement # r.entities[i].text =>
                      ~Contains(r.anonymized_text, r.entities[i].text)

\* a name has been given a placeholder and still stands in the anonymized
\* text, where it occurs a second time
C12_NameLeftInText ==
    /\ op = "anonymize_text" /\ anon.status = "ok"
    /\ \E i \in 1..Len(anon.results[1].entities) :
          /\ anon.results[1].entities[i].entity_type = "Person"
          /\ anon.results[1].entities[i].replacement = <<"[","P","E","R","S","O","N","-","A","]">>
          /\ Contains(anon.results[1].anonymized_text, anon.results[1].entities[i].text)
    /\ anon.results[1].anonymized_text = Rewritten(text, anon.results[1].entities)

-----------------------------------------------------------------------------
(* NerPipeline::extract_entities on its own *)

MaxTokens == 4

TokenWords == << <<"N","e","w">>, <<"Y","o","r","k">>, <<"C","i","t","y">>, <<"H","a","l","l">>,
                 <<"I","n","n">> >>

\* the tokens of "New York City Hall Inn" with their offsets
TokenAt(i) ==
    LET start == Len(JoinWords(SubSeq(TokenWords, 1, i - 1), <<" ">>)) + (IF i > 1 THEN 1 ELSE 0)
    IN  [token |-> TokenWords[i], start |-> start, end |-> start + Len(TokenWords[i])]

ExtractLabels == {"O", "B-PER", "I-PER", "B-LOC", "I-LOC"}

\* the token predictions extract_entities is given: a label and a confidence
\* for each of the first n tokens
ExtractInputs ==
    UNION { { [i \in 1..n |-> [token |-> TokenAt(i).token, label |-> ls[i], confidence |-> c,
                               start |-> TokenAt(i).start, end |-> TokenAt(i).end]] :
                ls \in [1..n -> ExtractLabels], c \in NerConfidences } : n \in 0..MaxTokens }

CallExtractEntities ==
    /\ op = "extract_entities" /\ output.status = "none"
    /\ output' = [status |-> "ok", value |-> extract_entities(input)]
    /\ UNCHANGED << replacement_map, counters, input >>
    /\ FnUnchanged

\* the BIO labels by type: <<type, B- label, I- label>>
BioLabels ==
    { <<"PER", "B-PER", "I-PER">>, <<"ORG", "B-ORG", "I-ORG">>, <<"LOC", "B-LOC", "I-LOC">>,
      <<"MISC", "B-MISC", "I-MISC">> }

BeginLabels == { b[2] : b \in BioLabels }

\* the last token of the run of I-X labels that follows position j, X being
\* the type of bio
RECURSIVE RunLast(_, _, _)
RunLast(predictions, bio, j) ==
    IF j < Len(predictions) /\ predictions[j + 1].label = bio[3]
    THEN RunLast(predictions, bio, j + 1) ELSE j

\* C13: a B-X token followed by k consecutive I-X tokens and then by an O
\* label, a B- label or the end of the sequence is decoded into exactly one
\* entity: type X, the k+1 tokens as constituents, their texts joined by
\* single spaces, from the start of the first to the end of the last; and
\* there is one entity for each B- label.
C13_RunDecodedToOneEntity ==
    (op = "extract_entities" /\ output.status = "ok") =>
        /\ Len(output.value) = Cardinality({i \in 1..Len(input) : input[i].label \in BeginLabels})
        /\ \A i \in 1..Len(input) : \A bio \in BioLabels :
              LET j == RunLast(input, bio, i)
              IN  (input[i].label = bio[2]
                   /\ (j = Len(input) \/ input[j + 1].label \in {"O"} \cup BeginLabels)) =>
                      /\ Cardinality({n \in 1..Len(output.value) :
                                         output.value[n].start = input[i].start}) = 1
                      /\ \E n \in 1..Len(output.value) :
                            /\ output.value[n].start = input[i].start
                            /\ output.value[n].end = input[j].end
                            /\ output.value[n].entity_type = bio[1]
                            /\ output.value[n].tokens = SubSeq(input, i, j)
                            /\ output.value[n].text =
                                  JoinWords([m \in 1..(j - i + 1) |-> input[i + m - 1].token], <<" ">>)

\* ("New", B-LOC), ("York", I-LOC), ("City", I-LOC) has given "New York City"
C13_NewYorkCity ==
    /\ op = "extract_entities" /\ output.status = "ok"
    /\ Len(input) = 3
    /\ output.value = << [text |-> <<"N","e","w"," ","Y","o","r","k"," ","C","i","t","y">>,
                          entity_type |-> "LOC", confidence |-> 90, start |-> 0, end |-> 13,
                          tokens |-> input] >>

-----------------------------------------------------------------------------
(* EntityTypeMapper::convert_entities on its own *)

ConvertText == <<"M","r","."," ","J","o">>

\* the spans the remote service may send for ConvertText: inside the text,
\* start > end, end past the text, start and end past the text, start past
\* the text with the end inside
ConvertSpans == { <<0, 3>>, <<4, 6>>, <<4, 3>>, <<0, 7>>, <<7, 8>>, <<7, 3>> }

RemoteEntities ==
    { [entity_type |-> ty, start |-> sp[1], end |-> sp[2], score |-> 82] :
        ty \in {"PERSON", "UNKNOWN"}, sp \in ConvertSpans }

ConvertInputs ==
    { [text |-> ConvertText, entities |-> es] :
        es \in { <<a>> : a \in RemoteEntities }
               \cup { <<a, b>> : a \in RemoteEntities, b \in RemoteEntities } }

CallConvertEntities ==
    /\ op = "convert_entities" /\ output.status = "none"
    /\ \E r \in {convert_entities(input.entities, input.text)} :
          output' = [status |-> r.status, value |-> r.entities]
    /\ UNCHANGED << replacement_map, counters, input >>
    /\ FnUnchanged

\* a remote entity with a mapped type and offsets inside the text
Convertible(e, t) ==
    /\ e.entity_type = "PERSON"
    /\ e.start <= e.end /\ e.end <= Len(t)

\* the convertible entities of a list, converted, in their order
Converted(es, t) ==
    LET kept == SelectSeq(es, LAMBDA e : Convertible(e, t))
    IN  [i \in 1..Len(kept) |->
            Entity("Person", Slice(t, kept[i].start, kept[i].end),
                   kept[i].start, kept[i].end, kept[i].score)]

\* C14: convert_entities never fails or panics: a remote entity whose offsets
\* lie outside the text (end past the text, start past the text, start > end)
\* or whose type is unmapped is dropped on its own, and the other entities of
\* the list are converted.
C14_ConvertNeverPanics ==
    (op = "convert_entities" /\ output.status # "none") =>
        /\ output.status = "ok"
        /\ output.value = Converted(input.entities, input.text)

\* the call panicked on a list of a convertible entity and one whose start
\* comes after its end
C14_InvertedSpanPanics ==
    /\ op = "convert_entities" /\ output.status = "panic"
    /\ Len(input.entities) = 2
    /\ Convertible(input.entities[1], input.text)
    /\ input.entities[2].start > input.entities[2].end
    /\ input.entities[2].end <= Len(input.text)

-----------------------------------------------------------------------------
(* Legal references that reach the replacement step *)

\* by how much the rewrite has moved the text that follows the first n
\* entities of a list
RECURSIVE ShiftAfter(_, _)
ShiftAfter(es, n) ==
    IF n = 0 THEN 0
    ELSE ShiftAfter(es, n - 1) + Len(es[n].replacement) - (es[n].end - es[n].start)

\* C15: a Law entity is never given a placeholder: when one reaches the
\* replacement step (Law among the entity types, legal references not
\* preserved) its replacement is its own text, the rewritten text shows it
\* verbatim at its place, and neither the replacement map nor the counters
\* hold an entry for it.
C15_LawKeepsItsText ==
    \A k \in 1..Len(anon.results) :
       LET r == anon.results[k]
       IN  \A i \in 1..Len(r.entities) :
              r.entities[i].entity_type = "Law" =>
                 /\ r.entities[i].replacement = r.entities[i].text
                 /\ r.entities[i].text \notin DOMAIN replacement_map
                 /\ "Law" \notin DOMAIN counters
                 /\ anon.status = "ok" =>
                       Slice(r.anonymized_text,
                             r.entities[i].start + ShiftAfter(r.entities, i - 1),
                             r.entities[i].end + ShiftAfter(r.entities, i - 1))
                          = r.entities[i].text

\* a request that does not preserve legal references has replaced a name and
\* met "GDPR" after it
C15_LawAfterName ==
    /\ anon.status = "ok" /\ ~settings.preserve_legal_references
    /\ \E i, j \in 1..Len(anon.results[1].entities) :
          /\ i < j
          /\ anon.results[1].entities[i].entity_type = "Person"
          /\ anon.results[1].entities[i].replacement # anon.results[1].entities[i].text
          /\ anon.results[1].entities[j].entity_type = "Law"
          /\ anon.results[1].entities[j].text = W_GDPR
    /\ DOMAIN counters = {"Person"}

-----------------------------------------------------------------------------
(* Requests without consistent replacement *)

\* what a new Anonymizer answers for one document
OnNewAnonymizer(order, t, s) ==
    AnonymizeSorted([map |-> EmptyMap, counters |-> EmptyMap], t, s, SeqDetected[order][t])

\* C16: with consistent_replacement = false, anonymize empties the replacement
\* map and the counters before it detects, so the placeholders of a document
\* depend on that document alone, whatever was served before; inside
\* anonymize_batch this holds for every document of the batch, and the maps
\* left behind are those of the last document.
C16_ResetForEveryDocument ==
    (op \in {"anonymize_text", "anonymize_batch"} /\ ~settings.consistent_replacement) =>
        /\ \A k \in 1..Len(anon.results) :
              anon.results[k] =
                  OnNewAnonymizer(patternOrder, anon.results[k].original_text, settings).result
        /\ Len(anon.results) > 0 =>
              LET last == OnNewAnonymizer(patternOrder,
                                          anon.results[Len(anon.results)].original_text, settings)
              IN  replacement_map = last.map /\ counters = last.counters

\* a batch without consistent replacement has given the first placeholder to
\* a name in its first document and to another name in its second
C16_FirstPlaceholderTwice ==
    /\ op = "anonymize_batch" /\ ~settings.consistent_replacement /\ anon.status = "ok"
    /\ Len(anon.results) = 2
    /\ \E i \in 1..Len(anon.results[1].entities) : \E j \in 1..Len(anon.results[2].entities) :
          /\ anon.results[1].entities[i].text # anon.results[2].entities[j].text
          /\ anon.results[1].entities[i].replacement = <<"[","P","E","R","S","O","N","-","A","]">>
          /\ anon.results[2].entities[j].replacement = <<"[","P","E","R","S","O","N","-","A","]">>
          /\ anon.results[1].entities[i].text \notin DOMAIN replacement_map

-----------------------------------------------------------------------------
(* LayerStatus::recommended_mode on its own *)

LayerStatuses == [layer1_pattern : BOOLEAN, layer2_ner : BOOLEAN, layer3_presidio : BOOLEAN]

\* recommended_mode as it would be if the remote layer alone sufficed for Full
recommended_mode_remote_alone(status) ==
    IF status.layer3_presidio THEN "Full"
    ELSE IF status.layer2_ner THEN "Hybrid"
    ELSE "PatternOnly"

\* LayerStatus::recommended_mode
recommended_mode(status) ==
    IF status.layer3_presidio /\ status.layer2_ner THEN "Full"
    ELSE IF status.layer2_ner THEN "Hybrid"
    ELSE "PatternOnly"

CallRecommendedMode ==
    /\ op = "recommended_mode" /\ output.status = "none"
    /\ output' = [status |-> "ok", value |-> recommended_mode(input)]
    /\ UNCHANGED << replacement_map, counters, input >>
    /\ FnUnchanged

\* C17: recommended_mode is Full exactly when both the NER layer and the
\* remote layer are available, Hybrid exactly when the NER layer is available
\* and the remote layer is not, and PatternOnly in every other case.
C17_RecommendedMode ==
    (op = "recommended_mode" /\ output.status = "ok") =>
        /\ output.value \in {"Full", "Hybrid", "PatternOnly"}
        /\ output.value = "Full" <=> (input.layer2_ner /\ input.layer3_presidio)
        /\ output.value = "Hybrid" <=> (input.layer2_ner /\ ~input.layer3_presidio)
        /\ output.value = "PatternOnly" <=> ~input.layer2_ner

\* the remote layer is available, the NER layer is not: PatternOnly
C17_RemoteWithoutNer ==
    /\ op = "recommended_mode" /\ output.status = "ok"
    /\ input.layer3_presidio /\ ~input.layer2_ner
    /\ output.value = "PatternOnly"

-----------------------------------------------------------------------------
(* What a merge displaces *)

\* the positions of the merged list the k-th candidate of a merge overwrites
Displaced(base, candidates, k, remote) ==
    LET cur == MergeLoop(base, candidates, k - 1, remote)
        nxt == MergeLoop(base, candidates, k, remote)
    IN  IF Len(nxt) # Len(cur) THEN {}
        ELSE {i \in 1..Len(cur) : nxt[i] # cur[i]}

\* every entity the k-th candidate displaces overlaps the candidate and has a
\* confidence strictly below the candidate's boosted confidence
DisplacedAreOutranked(base, candidates, k, remote) ==
    LET cur   == MergeLoop(base, candidates, k - 1, remote)
        cand  == candidates[k]
        boost == IF remote /\ cand.entity_type \in {"Identification", "Email", "Phone"}
                 THEN 5 ELSE 0
    IN  \A i \in Displaced(base, candidates, k, remote) :
           /\ SpansOverlap(cur[i], cand)
           /\ cur[i].confidence < cand.confidence + boost

\* C18: during a merge, the entity a winning candidate removes from the merged
\* list overlaps that candidate and has a confidence strictly lower than the
\* candidate's boosted confidence: no entity of the merged list is displaced
\* by a candidate that does not overlap it or does not outrank it.
C18_DisplacedOnlyByWinner ==
    (det.status = "ok" /\ mode \in {"Hybrid", "Full"}) =>
        /\ \A k \in 1..Len(HybridCandidates) :
              DisplacedAreOutranked(HybridBase, HybridCandidates, k, FALSE)
        /\ mode = "Full" =>
              \A k \in 1..Len(FullCandidates) :
                 DisplacedAreOutranked(FullBase, FullCandidates, k, TRUE)

\* in a Hybrid merge a NER candidate has overwritten an entity it does not
\* overlap and whose confidence is not below its own
C18_DisplacedWithoutOverlap ==
    /\ det.status = "ok" /\ mode = "Hybrid" /\ ner_out.status = "ok"
    /\ \E k \in 1..Len(HybridCandidates) :
       \E i \in Displaced(HybridBase, HybridCandidates, k, FALSE) :
          LET cur == MergeLoop(HybridBase, HybridCandidates, k - 1, FALSE)
          IN  /\ ~SpansOverlap(cur[i], HybridCandidates[k])
              /\ cur[i].confidence >= HybridCandidates[k].confidence

-----------------------------------------------------------------------------
(* merge_entities and merge_all_layers on their own *)

MaxCandidates == 3

MergeText == <<"J","o"," ","J","o">>

\* a Person entity of MergeText
MergeEntity(start, end, confidence) ==
    Entity("Person", Slice(MergeText, start, end), start, end, confidence)

\* the lists a merge may start from (sorted, as the pattern pass and the
\* earlier merge leave them): nothing, the whole name, its two words
MergeBases ==
    { <<>>,
      << MergeEntity(0, 5, NameConfidence) >>,
      << MergeEntity(0, 2, NameConfidence), MergeEntity(3, 5, NameConfidence) >> }

\* the entities the other layer may bring, in any order and more than once
MergeCandidates ==
    UNION { [1..n -> { MergeEntity(0, 2, 82), MergeEntity(0, 5, 82), MergeEntity(3, 5, 82) }] :
              n \in 0..MaxCandidates }

MergeInputs == [base : MergeBases, candidates : MergeCandidates]

CallMergeEntities ==
    /\ op = "merge_entities" /\ output.status = "none"
    /\ output' = [status |-> "ok", value |-> merge_entities(input.base, input.candidates)]
    /\ UNCHANGED << replacement_map, counters, input >>
    /\ FnUnchanged

CallMergeAllLayers ==
    /\ op = "merge_all_layers" /\ output.status = "none"
    /\ output' = [status |-> "ok", value |-> merge_all_layers(input.base, input.candidates)]
    /\ UNCHANGED << replacement_map, counters, input >>
    /\ FnUnchanged

SameTypeAndSpan(a, b) ==
    a.entity_type = b.entity_type /\ a.start = b.start /\ a.end = b.end

\* C19: the list merge_entities and merge_all_layers return is sorted by start
\* offset and holds no two entities with the same type, start and end,
\* whatever the base list and the candidate list.
C19_MergedSortedAndDistinct ==
    (op \in {"merge_entities", "merge_all_layers"} /\ output.status = "ok") =>
        /\ SortedByStart(output.value)
        /\ \A i, j \in 1..Len(output.value) :
              i < j => ~SameTypeAndSpan(output.value[i], output.value[j])

\* merge_all_layers has returned the same entity twice, another entity with
\* the same start between the two
C19_DuplicateSurvives ==
    /\ op = "merge_all_layers" /\ output.status = "ok"
    /\ \E i, j \in 1..Len(output.value) :
          /\ i + 1 < j
          /\ output.value[i] = output.value[j]
          /\ output.value[i + 1].start = output.value[i].start
          /\ ~SameTypeAndSpan(output.value[i + 1], output.value[i])

-----------------------------------------------------------------------------
(* Entity text against the source *)

TextIsSlice(e, t) == InBounds(e, t) /\ e.text = Slice(t, e.start, e.end)

\* C20: the text of every entity is exactly the source between its start and
\* its end: for the entities of the pattern pass, of the name heuristic
\* (stripped leading words and runs of blanks included), of the NER
\* conversion and of the remote conversion.
C20_TextIsSourceSlice ==
    /\ \A i \in 1..Len(det.entities) : TextIsSlice(det.entities[i], text)
    /\ \A k \in 1..Len(anon.results) : \A i \in 1..Len(anon.results[k].entities) :
          TextIsSlice(anon.results[k].entities[i], anon.results[k].original_text)

\* anonymize has returned a name found across two blanks: its text has one
\* blank, its span ends one character early, and the rewritten text keeps
\* the last letter of the name
C20_NameAcrossTwoBlanks ==
    /\ anon.status = "ok"
    /\ anon.results[1].original_text = <<"J","o"," "," ","J","o">>
    /\ Len(anon.results[1].entities) = 1
    /\ anon.results[1].entities[1].text = <<"J","o"," ","J","o">>
    /\ anon.results[1].entities[1].start = 0 /\ anon.results[1].entities[1].end = 5
    /\ anon.results[1].anonymized_text = <<"[","P","E","R","S","O","N","-","A","]","o">>

-----------------------------------------------------------------------------
(* I- labels that continue nothing *)

\* the type of the entity open when token i is met, "none" when none is: that
\* of the nearest B- label before i with no O label in between
RECURSIVE OpenType(_, _)
OpenType(predictions, i) ==
    IF i = 1 THEN "none"
    ELSE LET l == predictions[i - 1].label
         IN  IF l = "O" THEN "none"
             ELSE IF l \in BeginLabels
             THEN (CHOOSE bio \in BioLabels : bio[2] = l)[1]
             ELSE OpenType(predictions, i - 1)

\* token i carries an I-X label while no entity of type X is open
Stray(predictions, i) ==
    \E bio \in BioLabels :
       predictions[i].label = bio[3] /\ OpenType(predictions, i) # bio[1]

\* the first n tokens without the stray ones
RECURSIVE WithoutStray(_, _)
WithoutStray(predictions, n) ==
    IF n = 0 THEN <<>>
    ELSE IF Stray(predictions, n) THEN WithoutStray(predictions, n - 1)
    ELSE Append(WithoutStray(predictions, n - 1), predictions[n])

\* C21: an I-X token whose type differs from that of the open entity, or that
\* comes while no entity is open, is dropped: it emits and opens no entity and
\* leaves the open entity as it is and still open, so the entities are those
\* of the sequence without these tokens.
C21_StrayInsideDropped ==
    (op = "extract_entities" /\ output.status = "ok") =>
        output.value = extract_entities(WithoutStray(input, Len(input)))

\* ("New", B-LOC), ("York", I-PER), ("City", I-LOC) has given the one Location
\* "New City", made of the first and the third token
C21_MismatchedInsideSkipped ==
    /\ op = "extract_entities" /\ output.status = "ok"
    /\ Len(input) = 3
    /\ input[1].label = "B-LOC" /\ input[2].label = "I-PER" /\ input[3].label = "I-LOC"
    /\ Len(output.value) = 1
    /\ output.value[1].entity_type = "LOC"
    /\ output.value[1].tokens = << input[1], input[3] >>
    /\ output.value[1].text = input[1].token \o <<" ">> \o input[3].token
    /\ output.value[1].end = input[3].end

-----------------------------------------------------------------------------
(* merge_subword_predictions on its own *)

\* up to MaxTokens aligned tokens, each a continuation token or not, with the
\* label id and the confidence predicted for it
SubwordInputs ==
    UNION { { [alignments  |-> [i \in 1..n |-> [token |-> TokenAt(i).token,
                                                start |-> TokenAt(i).start,
                                                end |-> TokenAt(i).end,
                                                is_subword |-> sub[i]]],
               predictions |-> [i \in 1..n |-> [label_id |-> ls[i], confidence |-> c]]] :
                sub \in [1..n -> BOOLEAN], ls \in [1..n -> {1, 2}], c \in NerConfidences } :
            n \in 0..MaxTokens }

CallMergeSubword ==
    /\ op = "merge_subword_predictions" /\ output.status = "none"
    /\ output' = [status |-> "ok",
                  value |-> merge_subword_predictions(input.alignments, input.predictions)]
    /\ UNCHANGED << replacement_map, counters, input >>
    /\ FnUnchanged

\* the positions of the tokens that are no continuation tokens, in order
WordStarts(alignments) ==
    LET heads == {i \in 1..Len(alignments) : ~alignments[i].is_subword}
    IN  [k \in 1..Cardinality(heads) |->
            CHOOSE i \in heads : Cardinality({j \in heads : j <= i}) = k]

\* the last of the continuation tokens that follow token i (i when none does)
RECURSIVE LastContinuation(_, _)
LastContinuation(alignments, i) ==
    IF i < Len(alignments) /\ alignments[i + 1].is_subword
    THEN LastContinuation(alignments, i + 1) ELSE i

\* the texts of tokens i..j, concatenated
RECURSIVE ConcatTokens(_, _, _)
ConcatTokens(alignments, i, j) ==
    IF i > j THEN <<>> ELSE alignments[i].token \o ConcatTokens(alignments, i + 1, j)

\* C22: merge_subword_predictions yields exactly one word for each token that
\* is no continuation token, in input order: its text is the token followed
\* by its continuation tokens, its label id that of the first token, its start
\* the first token's start and its end the last constituent's end; for every
\* token sequence, one that begins with a continuation token included.
C22_OneWordPerWordStart ==
    (op = "merge_subword_predictions" /\ output.status = "ok") =>
        LET starts == WordStarts(input.alignments)
        IN  /\ Len(output.value) = Len(starts)
            /\ \A k \in 1..Len(starts) :
                  LET i == starts[k]
                      j == LastContinuation(input.alignments, i)
                  IN  /\ output.value[k].token = ConcatTokens(input.alignments, i, j)
                      /\ output.value[k].label_id = input.predictions[i].label_id
                      /\ output.value[k].start = input.alignments[i].start
                      /\ output.value[k].end = input.alignments[j].end

\* the sequence began with a continuation token: a word of its own was made
\* of it, with label id 0 and start 0, before the word of the second token
C22_LeadingContinuationIsWord ==
    /\ op = "merge_subword_predictions" /\ output.status = "ok"
    /\ Len(input.alignments) = 2
    /\ input.alignments[1].is_subword /\ ~input.alignments[2].is_subword
    /\ Len(output.value) = 2
    /\ output.value[1].token = input.alignments[1].token
    /\ output.value[1].label_id = 0
    /\ output.value[1].label_id # input.predictions[1].label_id
    /\ output.value[2].token = input.alignments[2].token

-----------------------------------------------------------------------------
(* EntityLinker (pii/entity_linker.rs) *)

\* str::replace(pat, ""), from 1-based position p on
RECURSIVE RemoveAll(_, _, _)
RemoveAll(t, pat, p) ==
    IF p > Len(t) THEN <<>>
    ELSE IF LitAt(t, p, pat) THEN RemoveAll(t, pat, p + Len(pat))
    ELSE <<t[p]>> \o RemoveAll(t, pat, p + 1)

\* str::trim
RECURSIVE Trim(_)
Trim(s) ==
    IF s = <<>> THEN s
    ELSE IF s[1] \in SpaceChars THEN Trim(Tail(s))
    ELSE IF s[Len(s)] \in SpaceChars THEN Trim(SubSeq(s, 1, Len(s) - 1))
    ELSE s

\* the titles array of remove_titles
LinkerTitles ==
    << <<"m","r",".">>, <<"m","r","s",".">>, <<"m","s",".">>, <<"d","r",".">>,
       <<"p","r","o","f",".">>, <<"m","r">>, <<"m","r","s">>, <<"m","s">>, <<"d","r">>,
       <<"p","r","o","f">> >>

\* the loop of remove_titles over the first n titles
RECURSIVE RemoveTitlesUpTo(_, _)
RemoveTitlesUpTo(t, n) ==
    IF n = 0 THEN t
    ELSE LET result == RemoveTitlesUpTo(t, n - 1)
             spaced == RemoveAll(result, LinkerTitles[n] \o <<" ">>, 1)
         IN  RemoveAll(spaced, LinkerTitles[n] \o <<".", " ">>, 1)

\* EntityLinker::remove_titles
remove_titles(t) == Trim(RemoveTitlesUpTo(t, Len(LinkerTitles)))

\* EntityLinker::normalize_text
normalize_text(t) == Trim(ToLower(remove_titles(t)))

-----------------------------------------------------------------------------
(* EntityLinker::normalize_text on its own *)

\* the honorific titles as they are written in names, and no title
WrittenTitles ==
    { <<>>,
      <<"M","r",".">>, <<"M","r","s",".">>, <<"M","s",".">>, <<"D","r",".">>,
      <<"P","r","o","f",".">>, <<"M","r">>, <<"M","r","s">>, <<"M","s">>, <<"D","r">>,
      <<"P","r","o","f">> }

WrittenNames ==
    { <<"J","o","h","n"," ","D","o","e">>, <<"J","o","h","n"," ","D","O","E">>,
      <<"J","a","n","e"," ","S","m","i","t","h">>, <<"A","m","r"," ","D","o","e">> }

NormalizeInputs == [title : WrittenTitles, name : WrittenNames]

\* the text of a title and a name
TitledName(in) == IF in.title = <<>> THEN in.name ELSE in.title \o <<" ">> \o in.name

CallNormalizeText ==
    /\ op = "normalize_text" /\ output.status = "none"
    /\ output' = [status |-> "ok", value |-> normalize_text(TitledName(input))]
    /\ UNCHANGED << replacement_map, counters, input >>
    /\ FnUnchanged

\* C23: normalize_text removes the titles Mr., Mrs., Ms., Dr. and Prof. as
\* they are written in names, capitalised and with or without the period, and
\* lower-cases the rest: a title and a name give the lower-cased name, and no
\* character of the name is removed.
C23_TitleRemovedNameLowered ==
    (op = "normalize_text" /\ output.status = "ok") => output.value = ToLower(input.name)

\* "Mr. John Doe" has been normalized to "mr. john doe"
C23_CapitalisedTitleKept ==
    /\ op = "normalize_text" /\ output.status = "ok"
    /\ input.title = <<"M","r",".">> /\ input.name = <<"J","o","h","n"," ","D","o","e">>
    /\ output.value = <<"m","r","."," ","j","o","h","n"," ","d","o","e">>

-----------------------------------------------------------------------------
(* The cursor of the rewrite *)

\* where the cursor of apply_anonymization stands when it meets entity i
CursorAt(es, i) == IF i = 1 THEN 0 ELSE es[i - 1].end

\* C24: anonymize returns a result without panicking for every text and every
\* settings value: in the left-to-right rewrite the cursor never passes the
\* start of the next entity, last_pos <= start <= end <= len(text) at every
\* step, also when the pattern pass and the name heuristic report the same
\* name.
C24_AnonymizeNeverPanics ==
    /\ anon.status # "panic"
    /\ \A k \in 1..Len(anon.results) :
          LET es == anon.results[k].entities
          IN  \A i \in 1..Len(es) :
                 /\ CursorAt(es, i) <= es[i].start
                 /\ es[i].start <= es[i].end
                 /\ es[i].end <= Len(anon.results[k].original_text)

\* anonymize with the default settings has panicked on a title match and the
\* name inside it, found by the name heuristic, both ending at the same place
C24_NameInsideTitleMatch ==
    /\ op = "anonymize_text" /\ anon.status = "panic" /\ settings = DefaultSettings
    /\ Len(anon.results[1].entities) = 2
    /\ anon.results[1].entities[1].confidence = PatternConfidence
    /\ anon.results[1].entities[2].confidence = NameConfidence
    /\ anon.results[1].entities[1].start < anon.results[1].entities[2].start
    /\ anon.results[1].entities[1].end = anon.results[1].entities[2].end
    /\ CursorAt(anon.results[1].entities, 2) > anon.results[1].entities[2].start

-----------------------------------------------------------------------------
(* PIIDetector::remove_overlaps on its own *)

OverlapText == <<"a","b","c","d","e","f","g","h","i","j","k","l">>

\* the matches of OverlapText between two of the offsets 0, 3, 6, 9, 12
OverlapCandidates ==
    { Entity("Person", Slice(OverlapText, sp[1], sp[2]), sp[1], sp[2], PatternConfidence) :
        sp \in { x \in {0, 3, 6, 9} \X {3, 6, 9, 12} : x[1] < x[2] } }

\* the lists remove_overlaps is given by detect: sorted by start
OverlapInputs ==
    UNION { { es \in [1..n -> OverlapCandidates] : SortedByStart(es) } : n \in 0..MaxCandidates }

CallRemoveOverlaps ==
    /\ op = "remove_overlaps" /\ output.status = "none"
    /\ output' = [status |-> "ok", value |-> remove_overlaps(input)]
    /\ UNCHANGED << replacement_map, counters, input >>
    /\ FnUnchanged

\* C25: remove_overlaps loses no coverage: every candidate it drops overlaps
\* some entity of the list it returns.
C25_DroppedOverlapsKept ==
    (op = "remove_overlaps" /\ output.status = "ok") =>
        \A i \in 1..Len(input) :
           (\A j \in 1..Len(output.value) : output.value[j] # input[i]) =>
               \E j \in 1..Len(output.value) : SpansOverlap(input[i], output.value[j])

\* of three matches, each overlapping the next and longer than the one before,
\* only the last is returned, and the first does not overlap it
C25_ChainLosesFirst ==
    /\ op = "remove_overlaps" /\ output.status = "ok"
    /\ Len(input) = 3 /\ Len(output.value) = 1
    /\ SpansOverlap(input[1], input[2]) /\ SpansOverlap(input[2], input[3])
    /\ output.value[1] = input[3]
    /\ ~SpansOverlap(input[1], input[3])

-----------------------------------------------------------------------------
(* The replacement map against the counters *)

\* how the placeholders of each anonymized type begin
PlaceholderPrefix ==
    [ty \in AnonymizedTypes |->
        <<"[">> \o
        (CASE ty = "Person"       -> <<"P","E","R","S","O","N">>
           [] ty = "Organization" -> <<"O","R","G","A","N","I","Z","A","T","I","O","N">>
           [] ty = "Location"     -> <<"L","O","C","A","T","I","O","N">>
           [] ty = "Date"         -> <<"D","A","T","E">>
           [] ty = "Money"        -> <<"A","M","O","U","N","T">>
           [] ty = "Email"        -> <<"E","M","A","I","L">>
           [] ty = "Phone"        -> <<"P","H","O","N","E">>
           [] ty = "Case"         -> <<"C","A","S","E">>
           [] ty = "Identification" -> <<"I","D">>
           [] ty = "TechnicalIdentifier" -> <<"T","E","C","H","-","I","D">>)
        \o <<"-">>]

\* the entity texts whose placeholder is one of type ty
TextsOfType(ty) ==
    { k \in DOMAIN replacement_map : LitAt(replacement_map[k], 1, PlaceholderPrefix[ty]) }

\* C26: after any sequence of anonymize, anonymize_batch and
\* clear_replacements, replacement_map is injective (no two entity texts share
\* a placeholder), and for each entity type the number of entries carrying
\* that type's placeholder prefix is the counter of the type.
C26_MapInjectiveCountersMatch ==
    /\ \A k1, k2 \in DOMAIN replacement_map :
          k1 # k2 => replacement_map[k1] # replacement_map[k2]
    /\ DOMAIN counters \subseteq AnonymizedTypes
    /\ \A ty \in AnonymizedTypes :
          Cardinality(TextsOfType(ty)) = (IF ty \in DOMAIN counters THEN counters[ty] ELSE 0)

\* the requests served have left two names and an e-mail address in the map
C26_TwoNamesAndAnAddress ==
    /\ op \in {"anonymize_text", "anonymize_batch"}
    /\ Cardinality(TextsOfType("Person")) = 2 /\ counters["Person"] = 2
    /\ Cardinality(TextsOfType("Email")) = 1 /\ counters["Email"] = 1

-----------------------------------------------------------------------------
(* Two calls of PIIDetector::detect *)

W_Ssn == <<"1","2","3","-","4","5","-","6","7","8","9">>

\* a social security number, alone and after a name, and texts without digits
TwiceTexts ==
    { W_Ssn, W_Jo \o <<" ">> \o W_Ssn, W_Mr \o <<" ">> \o W_Jo,
      W_Jo \o <<" ">> \o W_Company, W_Email \o <<" ">> \o W_GDPR }

\* the text, and the iteration order of the pattern map at each call: that of
\* one detector twice, or those of two detectors
TwiceInputs == [text : TwiceTexts, first : PatternOrders, second : PatternOrders]

CallDetectTwice ==
    /\ op = "detect_twice" /\ output.status = "none"
    /\ output' = [status |-> "ok",
                  value |-> << detect(input.first, input.text),
                               detect(input.second, input.text) >>]
    /\ UNCHANGED << replacement_map, counters, input >>
    /\ FnUnchanged

\* C27: detect is a function of its text alone: two calls, on one detector or
\* on two detectors built separately, return the same entities with the same
\* types, also when patterns of different types match spans that start at
\* the same offset; the iteration order of the pattern map does not decide
\* which candidate survives.
C27_DetectDeterministic ==
    (op = "detect_twice" /\ output.status = "ok") => output.value[1] = output.value[2]

\* two detectors have tagged the same span of the same text, one as a phone
\* number, the other as an identification number
C27_PhoneOrIdentification ==
    /\ op = "detect_twice" /\ output.status = "ok"
    /\ input.text = W_Ssn
    /\ Len(output.value[1]) = 1 /\ Len(output.value[2]) = 1
    /\ output.value[1][1].start = output.value[2][1].start
    /\ output.value[1][1].end = output.value[2][1].end
    /\ output.value[1][1].entity_type = "Phone"
    /\ output.value[2][1].entity_type = "Identification"

-----------------------------------------------------------------------------
(* Tokens and the labels predicted for them *)

W_Unk == <<"[","U","N","K","]">>

\* the values of max_length: shorter than the longest encoding, and longer
MaxLengths == {2, 512}

\* an encoding of up to MaxTokens tokens, some of them the bracketed token of
\* an unknown word, and the answer of the model for its input: the encoding
\* cut to max_length, one label per position
PairingInputs ==
    UNION { { [tokens      |-> [i \in 1..n |->
                                   [token |-> IF unk[i] THEN W_Unk ELSE TokenAt(i).token,
                                    start |-> TokenAt(i).start, end |-> TokenAt(i).end]],
               predictions |-> [i \in 1..(IF n < ml THEN n ELSE ml) |->
                                   [label_id |-> ls[i], confidence |-> 90]]] :
                unk \in [1..n -> BOOLEAN], ls \in [1..n -> {1, 5}], ml \in MaxLengths } :
            n \in 0..MaxTokens }

CallTokenPredictions ==
    /\ op = "predict" /\ output.status = "none"
    /\ output' = [status |-> "ok",
                  value |-> token_predictions(input.tokens, input.predictions)]
    /\ UNCHANGED << replacement_map, counters, input >>
    /\ FnUnchanged

\* the positions, in the encoding, of the tokens alignment retains and the
\* model has seen, in order
RetainedPositions(in) ==
    LET kept == {i \in 1..Len(in.tokens) :
                    in.tokens[i].token # W_Unk /\ i <= Len(in.predictions)}
    IN  [k \in 1..Cardinality(kept) |->
            CHOOSE i \in kept : Cardinality({j \in kept : j <= i}) = k]

\* C28: in predict every token retained by alignment is paired with the label
\* and the confidence the model produced for the token's own position in its
\* input, also when bracketed special tokens were dropped before it and when
\* the input was cut to max_length.
C28_LabelOfOwnPosition ==
    (op = "predict" /\ output.status = "ok") =>
        LET pos == RetainedPositions(input)
        IN  /\ Len(output.value) = Len(pos)
            /\ \A k \in 1..Len(pos) :
                  /\ output.value[k].token = input.tokens[pos[k]].token
                  /\ output.value[k].start = input.tokens[pos[k]].start
                  /\ output.value[k].label = from_id(input.predictions[pos[k]].label_id)
                  /\ output.value[k].confidence = input.predictions[pos[k]].confidence

\* the second token, after a dropped bracketed token, carries the label the
\* model gave for the first position
C28_LabelOfDroppedToken ==
    /\ op = "predict" /\ output.status = "ok"
    /\ Len(input.tokens) = 2 /\ Len(input.predictions) = 2
    /\ input.tokens[1].token = W_Unk /\ input.tokens[2].token # W_Unk
    /\ input.predictions[1].label_id = 1 /\ input.predictions[2].label_id = 5
    /\ Len(output.value) = 1
    /\ output.value[1].token = input.tokens[2].token
    /\ output.value[1].label = "B-PER"

-----------------------------------------------------------------------------
(* HybridDetector.detect while the NER model is loaded and unloaded *)

\* the calls of load_model and unload_model of one run
MaxManagerCalls == 3

LoadTexts == { W_Jo, W_Mr \o <<" ">> \o W_Jo }

\* load_model and unload_model keep their write guards until they return:
\* the lock of model is held from the first assignment on
ModelLockHeld ==
    procs.manager.pc \in {"load_model_set", "load_path_set",
                          "unload_model_set", "unload_path_set"}

\* NerPipeline::is_ready
is_ready(m, tok) == m.model /\ tok

\* one detect call and the task that loads and unloads the model; the
\* tokenizer of the pipeline is given or not, nothing in the pipeline sets it
InitLoad ==
    /\ op = "detect"
    /\ text \in LoadTexts
    /\ patternOrder = InsertionOrder
    /\ settings = DefaultSettings
    /\ replacement_map = EmptyMap
    /\ counters = EmptyMap
    /\ anon = NoAnon
    /\ mode \in {"NerOnly", "Hybrid"}
    /\ ner_ready = FALSE /\ presidio_enabled = FALSE
    /\ ner_out = NotCalled /\ presidio_out = NotCalled /\ det = NoDet
    /\ lock = 0
    /\ input = <<>>
    /\ output = NotCalled
    /\ manager = NoManager
    /\ tokenizer \in BOOLEAN
    /\ entity_map = NoLinks
    /\ procs = [detect  |-> [pc |-> "start", predict_error |-> "none"],
                manager |-> [pc |-> "idle", calls |-> 0]]

LoadUnchanged ==
    UNCHANGED << text, patternOrder, op, settings, replacement_map, counters, anon,
                 mode, ner_ready, presidio_enabled, presidio_out, lock,
                 input, output, tokenizer, entity_map >>

\* NerModel::load reads the model from disk, or fails and load_model returns
LoadModelRead ==
    /\ procs.manager.pc = "idle" /\ procs.manager.calls < MaxManagerCalls
    /\ \E loaded \in BOOLEAN :
          procs' = [procs EXCEPT !.manager =
                       [pc |-> IF loaded THEN "load_read" ELSE "idle", calls |-> @.calls + 1]]
    /\ UNCHANGED << manager, det, ner_out >>
    /\ LoadUnchanged

\* load_model: the write guard of model is taken and the model stored
LoadModelSetModel ==
    /\ procs.manager.pc = "load_read"
    /\ manager' = [manager EXCEPT !.model = TRUE]
    /\ procs' = [procs EXCEPT !.manager.pc = "load_model_set"]
    /\ UNCHANGED << det, ner_out >>
    /\ LoadUnchanged

\* load_model: the path is stored
LoadModelSetPath ==
    /\ procs.manager.pc = "load_model_set"
    /\ manager' = [manager EXCEPT !.model_path = TRUE]
    /\ procs' = [procs EXCEPT !.manager.pc = "load_path_set"]
    /\ UNCHANGED << det, ner_out >>
    /\ LoadUnchanged

\* load_model: the config is stored, the guards are dropped
LoadModelSetConfig ==
    /\ procs.manager.pc = "load_path_set"
    /\ manager' = [manager EXCEPT !.config = TRUE]
    /\ procs' = [procs EXCEPT !.manager.pc = "idle"]
    /\ UNCHANGED << det, ner_out >>
    /\ LoadUnchanged

\* unload_model: the write guard of model is taken and the model cleared
UnloadModelSetModel ==
    /\ procs.manager.pc = "idle" /\ procs.manager.calls < MaxManagerCalls
    /\ manager' = [manager EXCEPT !.model = FALSE]
    /\ procs' = [procs EXCEPT !.manager = [pc |-> "unload_model_set", calls |-> @.calls + 1]]
    /\ UNCHANGED << det, ner_out >>
    /\ LoadUnchanged

\* unload_model: the path is cleared
UnloadModelSetPath ==
    /\ procs.manager.pc = "unload_model_set"
    /\ manager' = [manager EXCEPT !.model_path = FALSE]
    /\ procs' = [procs EXCEPT !.manager.pc = "unload_path_set"]
    /\ UNCHANGED << det, ner_out >>
    /\ LoadUnchanged

\* unload_model: the config is cleared, the guards are dropped
UnloadModelSetConfig ==
    /\ procs.manager.pc = "unload_path_set"
    /\ manager' = [manager EXCEPT !.config = FALSE]
    /\ procs' = [procs EXCEPT !.manager.pc = "idle"]
    /\ UNCHANGED << det, ner_out >>
    /\ LoadUnchanged

\* detect returns
DetectReturns(result, error) ==
    /\ det' = result
    /\ procs' = [procs EXCEPT !.detect = [pc |-> "done", predict_error |-> error]]

\* predict returns an error: detect_with_ner passes it on, detect_hybrid goes
\* on without NER entities
PredictFails(error) ==
    DetectReturns(IF mode = "NerOnly" THEN [status |-> "err", entities |-> <<>>]
                  ELSE detect_hybrid(detect_with_patterns(patternOrder, text),
                                     text, FALSE, NotCalled),
                  error)

DetectStep(to) == procs' = [procs EXCEPT !.detect.pc = to] /\ UNCHANGED det

\* the is_ready check of detect_with_ner and of detect_hybrid
DetectIsReady ==
    /\ procs.detect.pc = "start" /\ ~ModelLockHeld
    /\ IF is_ready(manager, tokenizer) THEN DetectStep("ready")
       ELSE DetectReturns(IF mode = "NerOnly"
                          THEN detect_with_ner(detect_with_patterns(patternOrder, text),
                                               text, FALSE, NotCalled)
                          ELSE detect_hybrid(detect_with_patterns(patternOrder, text),
                                             text, FALSE, NotCalled),
                          "none")
    /\ UNCHANGED << manager, ner_out >>
    /\ LoadUnchanged

\* the is_ready check of predict
PredictIsReady ==
    /\ procs.detect.pc = "ready" /\ ~ModelLockHeld
    /\ IF is_ready(manager, tokenizer) THEN DetectStep("predict_ready")
       ELSE PredictFails("Pipeline not ready")
    /\ UNCHANGED << manager, ner_out >>
    /\ LoadUnchanged

\* model_manager.get_config() of predict
PredictGetConfig ==
    /\ procs.detect.pc = "predict_ready"
    /\ IF manager.config THEN DetectStep("have_config")
       ELSE PredictFails("Model config not available")
    /\ UNCHANGED << manager, ner_out >>
    /\ LoadUnchanged

\* predict reads the tokenizer and encodes the text
PredictEncode ==
    /\ procs.detect.pc = "have_config"
    /\ IF tokenizer THEN DetectStep("encoded")
       ELSE PredictFails("Tokenizer not loaded")
    /\ UNCHANGED << manager, ner_out >>
    /\ LoadUnchanged

\* model_manager.predict and the rest of predict and of detect
PredictForward ==
    /\ procs.detect.pc = "encoded" /\ ~ModelLockHeld
    /\ IF manager.model
       THEN \E out \in NerAnswers(text) :
               /\ ner_out' = out
               /\ \E patterns \in {detect_with_patterns(patternOrder, text)} :
                     DetectReturns(IF mode = "NerOnly"
                                   THEN detect_with_ner(patterns, text, TRUE, out)
                                   ELSE detect_hybrid(patterns, text, TRUE, out),
                                   IF out.status = "ok" THEN "none" ELSE "Model Runtime")
       ELSE PredictFails("No model loaded") /\ UNCHANGED ner_out
    /\ UNCHANGED manager
    /\ LoadUnchanged

NextLoad ==
    \/ LoadModelRead \/ LoadModelSetModel \/ LoadModelSetPath \/ LoadModelSetConfig
    \/ UnloadModelSetModel \/ UnloadModelSetPath \/ UnloadModelSetConfig
    \/ DetectIsReady \/ PredictIsReady \/ PredictGetConfig \/ PredictEncode
    \/ PredictForward

SpecLoad == InitLoad /\ [][NextLoad]_vars

\* C29: a load or unload of the NER model running beside detect cannot make
\* detect fail: in NerOnly mode detect returns the pattern fallback or a NER
\* result, never the error "Pipeline not ready" or "Model config not
\* available" of predict.
C29_LoadingNeverFailsDetect ==
    (mode = "NerOnly" /\ procs.detect.pc = "done") =>
        ~(det.status = "err" /\ procs.detect.predict_error \in
              {"Pipeline not ready", "Model config not available"})

\* detect found the pipeline ready, the model was unloaded, and predict
\* found it not ready
C29_UnloadedBetweenChecks ==
    /\ mode = "NerOnly" /\ procs.detect.pc = "done"
    /\ det.status = "err" /\ procs.detect.predict_error = "Pipeline not ready"
    /\ procs.manager.calls = 2 /\ manager = NoManager

-----------------------------------------------------------------------------
(* EntityLinker: linking and looking up (pii/entity_linker.rs) *)

\* calls that add to the map are made while it holds fewer texts than this
MaxLinked == 3

W_John == <<"J","o","h","n">>
W_Doe == <<"D","o","e">>
W_Jane == <<"J","a","n","e">>

LinkNames == { W_John, W_John \o <<" ">> \o W_Doe, W_Doe, W_Jane \o <<" ">> \o W_Doe }

\* the names and what get_canonical returns for them
LinkTexts == LinkNames \cup { normalize_text(n) : n \in LinkNames }

Normalized == [t \in LinkTexts |-> normalize_text(t)]

\* EntityLinker::extract_last_name: <<>> is None
extract_last_name(t) ==
    LET words == SplitWhitespace(t, 1)
    IN  IF Len(words) >= 2 THEN <<words[Len(words)]>> ELSE <<>>

\* EntityLinker::share_initials
share_initials(t1, t2) ==
    LET words1 == SplitWhitespace(t1, 1)
        words2 == SplitWhitespace(t2, 1)
    IN  /\ words1 # <<>> /\ words2 # <<>>
        /\ \E i \in 1..Len(words1) : \E j \in 1..Len(words2) : words1[i][1] = words2[j][1]

\* EntityLinker::might_be_same_person
might_be_same_person(t1, t2) ==
    LET norm1 == Normalized[t1]
        norm2 == Normalized[t2]
        last1 == extract_last_name(norm1)
        last2 == extract_last_name(norm2)
    IN  \/ norm1 = norm2
        \/ Contains(norm1, norm2) \/ Contains(norm2, norm1)
        \/ /\ last1 # <<>> /\ last2 # <<>>
           /\ last1 = last2 /\ last1[1] # <<>>
           /\ share_initials(norm1, norm2)

SamePerson == [p \in LinkNames \X LinkNames |-> might_be_same_person(p[1], p[2])]

\* EntityLinker::link_variation on the map m
link_variation(m, canonical, variation) ==
    LET c == Normalized[canonical]
        v == Normalized[variation]
    IN  [k \in DOMAIN m \cup {c} |-> (IF k \in DOMAIN m THEN m[k] ELSE <<c>>) \o
                                     (IF k = c THEN <<v>> ELSE <<>>)]

\* the inner loop of auto_link_entities for entities[i], from entities[j] on
RECURSIVE AutoLinkFrom(_, _, _, _)
AutoLinkFrom(m, entities, i, j) ==
    IF i > Len(entities) THEN m
    ELSE IF j > Len(entities) THEN AutoLinkFrom(m, entities, i + 1, i + 2)
    ELSE AutoLinkFrom(IF SamePerson[<<entities[i], entities[j]>>]
                      THEN link_variation(m, entities[i], entities[j]) ELSE m,
                      entities, i, j + 1)

\* EntityLinker::auto_link_entities
auto_link_entities(m, entities) == AutoLinkFrom(m, entities, 1, 2)

\* the orders in which the HashMap m may iterate its keys
KeyOrders(m) ==
    LET n == Cardinality(DOMAIN m)
    IN  { o \in [1..n -> DOMAIN m] : \A i, j \in 1..n : i # j => o[i] # o[j] }

\* EntityLinker::get_canonical, the map iterating in the order given
get_canonical(m, order, t) ==
    LET normalized == Normalized[t]
        hits == { i \in 1..Len(order) :
                     \E k \in 1..Len(m[order[i]]) : m[order[i]][k] = normalized }
    IN  IF hits = {} THEN normalized
        ELSE order[CHOOSE i \in hits : \A h \in hits : i <= h]

\* the lists of two or three different names
LinkLists ==
    { l \in UNION { [1..n -> LinkNames] : n \in 2..3 } :
        \A i, j \in 1..Len(l) : i # j => l[i] # l[j] }

InitLink ==
    /\ op = "new"
    /\ text = <<>>
    /\ patternOrder = InsertionOrder
    /\ settings = DefaultSettings
    /\ replacement_map = EmptyMap
    /\ counters = EmptyMap
    /\ anon = NoAnon
    /\ mode = "Hybrid" /\ ner_ready = FALSE /\ presidio_enabled = FALSE
    /\ ner_out = NotCalled /\ presidio_out = NotCalled /\ det = NoDet
    /\ lock = 0
    /\ procs = <<>>
    /\ input = <<>>
    /\ output = NotCalled
    /\ manager = NoManager /\ tokenizer = FALSE
    /\ entity_map = NoLinks

LinkUnchanged ==
    UNCHANGED << text, patternOrder, settings, replacement_map, counters, anon,
                 mode, ner_ready, presidio_enabled, ner_out, presidio_out, det, lock, procs,
                 manager, tokenizer >>

\* the texts the map holds, keys and variations
LinkedCount(m) == Cardinality(UNION { { <<k, i>> : i \in 1..Len(m[k]) } : k \in DOMAIN m })

LinkVariation ==
    /\ LinkedCount(entity_map) < MaxLinked
    /\ \E canonical \in LinkNames : \E variation \in LinkNames :
          /\ entity_map' = link_variation(entity_map, canonical, variation)
          /\ input' = <<canonical, variation>>
    /\ op' = "link_variation"
    /\ output' = NotCalled
    /\ LinkUnchanged

AutoLinkEntities ==
    /\ LinkedCount(entity_map) < MaxLinked
    /\ \E entities \in LinkLists :
          /\ entity_map' = auto_link_entities(entity_map, entities)
          /\ input' = entities
    /\ op' = "auto_link_entities"
    /\ output' = NotCalled
    /\ LinkUnchanged

GetCanonical ==
    /\ op # "get_canonical"
    /\ \E t \in LinkNames : \E order \in KeyOrders(entity_map) :
          /\ input' = t
          /\ output' = [status |-> "ok", value |-> get_canonical(entity_map, order, t)]
    /\ op' = "get_canonical"
    /\ UNCHANGED entity_map
    /\ LinkUnchanged

NextLink == LinkVariation \/ AutoLinkEntities \/ GetCanonical

SpecLink == InitLink /\ [][NextLink]_vars

\* the canonical keys under which the normalized text v is recorded
KeysOf(v) == { c \in DOMAIN entity_map : \E k \in 1..Len(entity_map[c]) : entity_map[c][k] = v }

\* C30: after any sequence of link_variation and auto_link_entities calls
\* every normalized variant is recorded under at most one canonical key, so
\* get_canonical has one possible value whatever the iteration order of the
\* map, and get_canonical(get_canonical(t)) = get_canonical(t).
C30_OneCanonicalPerVariant ==
    /\ \A t \in LinkTexts : Cardinality(KeysOf(t)) <= 1
    /\ \A t \in LinkNames : \A o1, o2 \in KeyOrders(entity_map) :
          get_canonical(entity_map, o1, t) = get_canonical(entity_map, o2, t)
    /\ \A t \in LinkNames : \A o \in KeyOrders(entity_map) :
          get_canonical(entity_map, o, get_canonical(entity_map, o, t))
              = get_canonical(entity_map, o, t)

\* after auto_link_entities on John, John Doe, Doe the name John Doe is
\* recorded under two keys, and the canonical of Doe has another canonical
C30_JohnDoeUnderTwoKeys ==
    /\ op = "auto_link_entities" /\ LinkedCount(entity_map) = 4
    /\ input = << W_John, W_John \o <<" ">> \o W_Doe, W_Doe >>
    /\ KeysOf(ToLower(W_John \o <<" ">> \o W_Doe))
          = { ToLower(W_John), ToLower(W_John \o <<" ">> \o W_Doe) }
    /\ \E o \in KeyOrders(entity_map) :
          /\ get_canonical(entity_map, o, W_Doe) = ToLower(W_John \o <<" ">> \o W_Doe)
          /\ get_canonical(entity_map, o, ToLower(W_John \o <<" ">> \o W_Doe)) = ToLower(W_John)

-----------------------------------------------------------------------------
(* The function calls together *)

Functions == {"get_or_create_replacement", "extract_entities", "convert_entities",
              "recommended_mode", "merge_entities", "merge_all_layers",
              "merge_subword_predictions",
              "normalize_text",
              "remove_overlaps",
              "detect_twice",
              "predict"}

FnInputs(f) ==
    CASE f = "get_or_create_replacement" -> GetOrCreateInputs
      [] f = "extract_entities"          -> ExtractInputs
      [] f = "convert_entities"          -> ConvertInputs
      [] f = "recommended_mode"          -> LayerStatuses
      [] f \in {"merge_entities", "merge_all_layers"} -> MergeInputs
      [] f = "merge_subword_predictions" -> SubwordInputs
      [] f = "normalize_text" -> NormalizeInputs
      [] f = "remove_overlaps" -> OverlapInputs
      [] f = "detect_twice" -> TwiceInputs
      [] f = "predict" -> PairingInputs

InitFn ==
    /\ op \in Functions
    /\ input \in FnInputs(op)
    /\ output = NotCalled
    /\ ConstructedIdle
    /\ text = <<>>
    /\ patternOrder = InsertionOrder
    /\ settings = DefaultSettings
    /\ replacement_map = EmptyMap
    /\ counters = EmptyMap
    /\ anon = NoAnon
    /\ mode = "Hybrid" /\ ner_ready = FALSE /\ presidio_enabled = FALSE
    /\ ner_out = NotCalled /\ presidio_out = NotCalled /\ det = NoDet
    /\ lock = 0
    /\ procs = <<>>

NextFn ==
    \/ CallGetOrCreate
    \/ CallExtractEntities
    \/ CallConvertEntities
    \/ CallRecommendedMode
    \/ CallMergeEntities
    \/ CallMergeAllLayers
    \/ CallMergeSubword
    \/ CallNormalizeText
    \/ CallRemoveOverlaps
    \/ CallDetectTwice
    \/ CallTokenPredictions

SpecFn == InitFn /\ [][NextFn]_vars

=============================================================================
